---- MODULE Spec2Model ----
(***************************************************************************)
(* Model of the Shadowsocks AEAD stream codec of outline-ss-server         *)
(* (shadowsocks/stream.go): the buffered Writer with LazyWrite/Flush, and  *)
(* the chunk Reader.                                                       *)
(*                                                                         *)
(* Plaintext bytes are not given numeric values: every byte handed to the  *)
(* Writer is identified by its position in the order of the calls, and a   *)
(* block of bytes is a sequence of runs <<lo, hi>> (the bytes lo..hi-1).   *)
(* Copying keeps the identity of a byte, so loss, duplication and          *)
(* reordering are all visible.  Lengths, offsets, the 16-bit length field  *)
(* and the nonce counter keep their real values and widths.                *)
(*                                                                         *)
(* The AEAD is symbolic: a sealed block records the key, the nonce and the *)
(* plaintext it was sealed with, and opens only under the same key and     *)
(* nonce.                                                                  *)
(***************************************************************************)
EXTENDS Integers, Sequences, FiniteSets, TLC

\* ------------------------------------------------------------ constants

payloadSizeMask == 16383
SaltSize == 32
NonceSize == 12
Overhead == 16

modeNormal == 0
modeLazy == 1
modeFlush == 2

\* --------------------------------------------------------------- bounds

\* API calls made on one Writer (Write, ReadFrom, LazyWrite, Flush together).
MaxCalls == 3
\* The same, where a Reader then reads what the Writer wrote.
MaxSeqCalls == 2
\* Short reads (of ShortRead bytes) a source handed to ReadFrom may return.
MaxShort == 1
\* Read calls made on one Reader.
MaxReads == 4

\* Lengths of the slices passed to Write and LazyWrite, and of the data held
\* by a source passed to ReadFrom.
ArgSizes == {0, 1, 16382, 16384}
SrcSizes == {0, 16384}
ShortRead == 1
\* Lengths of the buffers passed to Reader.Read.
ReadSizes == {1, 16383, 20000}
\* A peer's stream has at most MaxChunks chunks, the values of their length
\* fields drawn from WireLengths.
MaxChunks == 2
WireLengths == {0, 1, 16383, 16384, 16385, 65535}
\* Entries pushed on one cipherList, and Safe... calls made on it.
MaxEntries == 3
MaxListCalls == 3
\* The client addresses passed to the cipherList; "nil" is the nil net.IP.
ClientIPs == {"nil", "ip1"}
\* The capacities of a replay set (1 .. MaxWindow), the tags presented to
\* it (1 .. MaxTags) and the add_if_new calls made on it.
MaxWindow == 2
MaxTags == 3
MaxAdds == 4
\* The UDP clients' addresses and the key IDs their datagrams open under.
NatClients == {"c1", "c2"}
KeyIDs == {"k1", "k2"}
\* The target sockets the UDP service opens, the idle timeout of a NAT
\* entry and how far the clock runs.
MaxSockets == 3
NatTimeout == 2
MaxNatClock == 3
\* The datagrams one NAT entry carries to its target socket.
MaxUp == 2
\* The TCP connections accepted, the keys the server holds, the timeout
\* of a connection, and the bytes a connection sends after its first
\* bytes and is sent by the server.
MaxConns == 2
ServerKeys == {"k1"}
TcpTimeout == 2
MaxInbound == 1
MaxWritten == 1
\* The widths of the counters increment is tried on, the values of their
\* bytes, and how many times it is applied to one counter.
Widths == {1, 2, 3, NonceSize}
CounterBytes == {0, 1, 254}
MaxIncrements == 2
\* Salts the random generator may produce.
Salts == {1}
\* The access key (secret) of the cipher both ends are built with.
Secret == "secret-1"

\* ----------------------------------------------------------- byte blocks

Min(a, b) == IF a < b THEN a ELSE b

\* The n bytes lo .. lo+n-1.
Run(lo, n) == IF n = 0 THEN <<>> ELSE << <<lo, lo + n>> >>

RECURSIVE DLen(_)
DLen(d) == IF d = <<>> THEN 0 ELSE (d[1][2] - d[1][1]) + DLen(Tail(d))

\* Concatenation; adjacent runs that continue each other are merged, so a
\* block has one representation.
DCat(a, b) ==
  IF a = <<>> THEN b
  ELSE IF b = <<>> THEN a
  ELSE IF a[Len(a)][2] = b[1][1]
       THEN SubSeq(a, 1, Len(a) - 1) \o << <<a[Len(a)][1], b[1][2]>> >> \o Tail(b)
       ELSE a \o b

RECURSIVE DTake(_, _)
DTake(d, n) ==
  IF n = 0 \/ d = <<>> THEN <<>>
  ELSE LET k == d[1][2] - d[1][1] IN
       IF k <= n THEN DCat(<<d[1]>>, DTake(Tail(d), n - k))
       ELSE << <<d[1][1], d[1][1] + n>> >>

RECURSIVE DDrop(_, _)
DDrop(d, n) ==
  IF n = 0 \/ d = <<>> THEN d
  ELSE LET k == d[1][2] - d[1][1] IN
       IF k <= n THEN DDrop(Tail(d), n - k)
       ELSE << <<d[1][1] + n, d[1][2]>> >> \o Tail(d)

\* ------------------------------------------------------------ the nonce

RECURSIVE incrementFrom(_, _)
incrementFrom(b, i) ==
  IF i > Len(b) THEN b
  ELSE LET v == (b[i] + 1) % 256
           b2 == [b EXCEPT ![i] = v]
       IN IF v # 0 THEN b2 ELSE incrementFrom(b2, i + 1)

\* A slip: the carry into the next byte is dropped.
incrementNoCarry(b) == [b EXCEPT ![1] = (@ + 1) % 256]

\* increment(b)  (stream.go 347-355)
increment(b) == incrementFrom(b, 1)

RECURSIVE isZero(_)
isZero(b) == IF b = <<>> THEN TRUE ELSE IF b[1] # 0 THEN FALSE ELSE isZero(Tail(b))

ZeroBytes(n) == [i \in 1..n |-> 0]

\* The little-endian value of a counter (used to state properties only).
RECURSIVE LEValue(_)
LEValue(b) == IF b = <<>> THEN 0 ELSE b[1] + 256 * LEValue(Tail(b))

\* ------------------------------------------------------------- the AEAD

NoAEAD == [secret |-> "", salt |-> 0]
\* ssCipher.Encrypter(salt) / Decrypter(salt): the key derived from the
\* secret and the salt.
Derive(secret, salt) == [secret |-> secret, salt |-> salt]

NoBytes == <<>>

\* A stretch of the wire.  kind "salt": the salt in clear; kind "ct": one AEAD
\* ciphertext with its tag; kind "junk": bytes that are no whole ciphertext.
SaltSeg(s) ==
  [kind |-> "salt", salt |-> s, key |-> NoAEAD, nonce |-> NoBytes,
   bytes |-> NoBytes, data |-> <<>>, size |-> SaltSize]
\* aead.Seal(dst, nonce, plaintext, nil).  The plaintext is either literal
\* bytes (the length block) or a block of caller bytes (the payload).
Seal(aead, nonce, bytes, data) ==
  [kind |-> "ct", salt |-> 0, key |-> aead, nonce |-> nonce,
   bytes |-> bytes, data |-> data, size |-> Len(bytes) + DLen(data) + Overhead]
JunkSeg(n) ==
  [kind |-> "junk", salt |-> 0, key |-> NoAEAD, nonce |-> NoBytes,
   bytes |-> NoBytes, data |-> <<>>, size |-> n]

\* binary.BigEndian.PutUint16(sizeBuf, uint16(v))
PutUint16(v) == << (v % 65536) \div 256, v % 256 >>
\* binary.BigEndian.Uint16(b)
Uint16(b) == b[1] * 256 + b[2]

RECURSIVE SegsSize(_)
SegsSize(s) == IF s = <<>> THEN 0 ELSE s[1].size + SegsSize(Tail(s))

\* buf[start:] for a buf laid out as the segments s; start falls on a
\* segment boundary.
RECURSIVE SegsFrom(_, _)
SegsFrom(s, start) ==
  IF start = 0 \/ s = <<>> THEN s ELSE SegsFrom(Tail(s), start - s[1].size)


\* ================================================================ state

VARIABLES
  sw,        \* the shadowsocksWriter: its fields, and the sink's writes
  task,      \* the two callers of the Writer: where each is in its call
  src,       \* the io.Reader handed to ReadFrom
  seals,     \* the nonces presented to aead.Seal, in order
  handed,    \* how many bytes the callers have handed to the Writer
  ncalls,    \* how many calls have been made on the Writer
  closed,    \* the sink has been closed: the Reader sees its whole output
  wire,      \* what the Reader's underlying stream still holds
  cr,        \* the chunkReader
  conv,      \* the readConverter
  rd,        \* the result of the Reader's last call
  delivered, \* the bytes the Reader has delivered, in order
  nreads     \* how many calls have been made on the Reader

VARIABLES
  cl,        \* the cipherList: its list, the entries' lastClientIP, its mu
  lt,        \* the callers of the cipherList: where each is in its call
  lcalls     \* how many Safe... calls have been made on the cipherList

streamVars == <<sw, task, src, seals, handed, ncalls, closed, wire, cr, conv,
                rd, delivered, nreads>>
listVars == <<cl, lt, lcalls>>

VARIABLES
  rs,        \* the replay set: its two generations, its capacity, its mutex
  rt,        \* the callers of add_if_new: where each is in its call
  radds,     \* the tags add_if_new has inserted, in order
  rcalls     \* how many add_if_new calls have been made

VARIABLES
  nat,        \* the NAT table: per client address, its entry
  socks,      \* the target sockets opened so far: "open" or "closed"
  readers,    \* the reader tasks spawned so far: socket and position
  natClock,   \* the time
  natAdded,   \* NAT add events recorded by the metrics
  natRemoved, \* NAT remove events recorded by the metrics
  natSeen     \* the (client address, key ID) pairs of the datagrams so far

VARIABLES
  conn        \* the TCP connections: state, first bytes, status, counts

replayVars == <<rs, rt, radds, rcalls>>
tcpVars == <<conn>>
natVars == <<nat, socks, readers, natClock, natAdded, natRemoved, natSeen>>
serviceVars == <<replayVars, natVars, tcpVars>>

VARIABLES
  ctr,        \* a counter that increment is applied to
  nincs       \* how many times it has been

nonceVars == <<ctr, nincs>>
vars == <<streamVars, listVars, serviceVars, nonceVars>>
writerVars == <<sw, task, src, seals, handed, ncalls>>
readerVars == <<wire, cr, conv, rd, delivered, nreads>>

\* "w": the thread that calls Write, ReadFrom and LazyWrite.
\* "f": a thread that calls Flush.
Tasks == {"w", "f"}

\* NewShadowsocksWriter: only writer and ssCipher are set.  sw.writer is the
\* sequence of the writes made on the sink; salt and payload are the two
\* regions of sw.buf the model needs (the salt, and payloadBuf[:pending]).
NewShadowsocksWriter ==
  [writer |-> <<>>, byteWrapper |-> <<>>, flush |-> "fresh", pending |-> 0,
   salt |-> 0, payload |-> <<>>, aead |-> NoAEAD, counter |-> NoBytes]

\* pc .. rerr: the call and the locals of readFrom.  The rest is kept to
\* state properties: arg, the bytes handed in (the first, and how many);
\* sink0, seals0, held, the Writer when the call began (the writes on the
\* sink, the seals, the pending bytes); sent, the plaintext this call has
\* sealed and written; alone, no call of the other thread has run during
\* this one; werr, what the sink's last write in this call returned.
NoCall ==
  [pc |-> "idle", op |-> "none", mode |-> modeNormal, from |-> "bw",
   written |-> 0, start |-> 0, rerr |-> "nil", err |-> "nil",
   arg |-> <<0, 0>>, sink0 |-> 0, seals0 |-> 0, held |-> <<>>, sent |-> <<>>,
   alone |-> TRUE, werr |-> "nil"]

\* A call begins: its arguments, and what the Writer looked like then.
Other(t) == IF t = "w" THEN "f" ELSE "w"

Call(t, op, mode, from, pc, lo, n) ==
  [pc |-> pc, op |-> op, mode |-> mode, from |-> from,
   written |-> 0, start |-> 0, rerr |-> "nil", err |-> "nil",
   arg |-> <<lo, n>>, sink0 |-> Len(sw.writer), seals0 |-> Len(seals),
   held |-> sw.payload, sent |-> <<>>,
   alone |-> task[Other(t)].pc = "idle", werr |-> "nil"]

\* Thread t begins a call: the other thread's call, if one is running, is
\* no longer alone.
Begin(t, call) ==
  [task EXCEPT ![t] = call,
               ![Other(t)].alone = @ /\ task[Other(t)].pc = "idle"]

NoSource == [data |-> <<>>, term |-> "EOF", shorts |-> 0]

\* NewShadowsocksReader
NewChunkReader == [aead |-> NoAEAD, counter |-> NoBytes]
NewReadConverter == [leftover |-> <<>>]
NoRead ==
  [op |-> "none", n |-> 0, err |-> "nil", len |-> 0, chunk |-> FALSE,
   sizeBuf |-> NoBytes]

InitWriter ==
  /\ sw = NewShadowsocksWriter
  /\ task = [t \in Tasks |-> NoCall]
  /\ src = NoSource
  /\ seals = <<>>
  /\ handed = 0
  /\ ncalls = 0

InitReader ==
  /\ cr = NewChunkReader
  /\ conv = NewReadConverter
  /\ rd = NoRead
  /\ delivered = <<>>
  /\ nreads = 0

\* The threads that call the cipherList's Safe... methods.
ListTasks == {"p", "q"}

\* No call: pc .. remainingCiphers are the call and the locals of
\* SafeSnapshotForClientIP and SafeMarkUsedByClientIP; ret is what the last
\* snapshot returned.  The rest is kept to state properties: at, the list
\* and the entries' lastClientIP when the snapshot took its lock, and
\* whether no writer held mu then; clean, no PushBack has run during the
\* call.
NoListCall ==
  [pc |-> "idle", op |-> "none", clientIP |-> "nil", e |-> 0,
   cipherArray |-> <<>>, remainingCiphers |-> <<>>, ret |-> <<>>,
   at |-> <<>>, clean |-> TRUE]

\* NewCipherList: an empty list, mu unlocked.  lastMark is kept to state
\* properties: the element and the address of the last
\* SafeMarkUsedByClientIP that has set its address.
NewCipherList ==
  [list |-> <<>>, lastClientIP |-> <<>>, readers |-> 0, writer |-> FALSE,
   lastMark |-> <<0, "nil">>]

InitList ==
  /\ cl = NewCipherList
  /\ lt = [t \in ListTasks |-> NoListCall]
  /\ lcalls = 0

\* The threads that call add_if_new.
ReplayTasks == {"a", "b"}

\* No call: pc, tag, ret are the call, its argument and what it returned.
\* The rest is kept to state properties: before, the two generations when
\* the call took the mutex; alone, no other call has run during this one.
NoAdd ==
  [pc |-> "idle", tag |-> 0, ret |-> FALSE,
   before |-> [current |-> {}, previous |-> {}], alone |-> TRUE]

\* A replay set of capacity n: both generations empty, the mutex free.
NewReplaySet(n) ==
  [current |-> {}, previous |-> {}, capacity |-> n, mutex |-> "free"]

InitReplay(n) ==
  /\ rs = NewReplaySet(n)
  /\ rt = [t \in ReplayTasks |-> NoAdd]
  /\ radds = <<>>
  /\ rcalls = 0

\* No NAT entry for a client address.
NoEntry == [keyID |-> "none", sock |-> 0, last |-> 0, up |-> 0]

InitNat ==
  /\ nat = [c \in NatClients |-> NoEntry]
  /\ socks = <<>>
  /\ readers = <<>>
  /\ natClock = 0
  /\ natAdded = 0
  /\ natRemoved = 0
  /\ natSeen = {}

\* A connection not yet accepted.  key and tag are its first bytes: the
\* key they were sealed under ("noise" when under none) and the replay
\* tag computed from them; written and discarded count the bytes the
\* server has written to it and has read from it and thrown away; left
\* is the time left to its deadline.
NoConn ==
  [state |-> "none", key |-> "none", tag |-> 0, status |-> "none",
   written |-> 0, discarded |-> 0, left |-> 0]

InitTcp ==
  /\ conn = [i \in 1..MaxConns |-> NoConn]

InitService ==
  /\ InitReplay(1)
  /\ InitNat
  /\ InitTcp

\* A counter as init makes it: NonceSize zero bytes.
InitNonce ==
  /\ ctr = ZeroBytes(NonceSize)
  /\ nincs = 0

InitStream ==
  /\ InitWriter
  /\ InitReader
  /\ closed = FALSE
  /\ wire = <<>>

Init ==
  /\ InitStream
  /\ InitList
  /\ InitService
  /\ InitNonce

\* ====================================================== the Writer's calls

CanCall == ~closed /\ ncalls < MaxCalls

\* The flushing thread flushes a lazy write its owner has abandoned: a call
\* of one thread runs during a call of the other only on a Writer that an
\* earlier call has initialised (init itself is not synchronised).
MayOverlap == sw.aead # NoAEAD

\* Write(p), len(p) = n.  (stream.go 111-113)
Write(n) ==
  /\ CanCall
  /\ task["w"].pc = "idle"
  /\ task["f"].pc = "idle" \/ MayOverlap
  /\ task' = Begin("w", Call("w", "Write", modeNormal, "bw", "reset", handed, n))
  /\ handed' = handed + n
  /\ ncalls' = ncalls + 1
  /\ UNCHANGED <<sw, src, seals, closed, readerVars>>

\* ReadFrom(r), r holding n bytes and ending with term.  (stream.go 143-145)
ReadFrom(n, term) ==
  /\ CanCall
  /\ task["w"].pc = "idle"
  /\ task["f"].pc = "idle" \/ MayOverlap
  /\ task' = Begin("w", Call("w", "ReadFrom", modeNormal, "r", "init", handed, n))
  /\ src' = [data |-> Run(handed, n), term |-> term, shorts |-> MaxShort]
  /\ handed' = handed + n
  /\ ncalls' = ncalls + 1
  /\ UNCHANGED <<sw, seals, closed, readerVars>>

\* A slip: LazyWrite does not reset the flush action.
LazyWriteNoReset(n) ==
  /\ CanCall
  /\ task["w"].pc = "idle"
  /\ task["f"].pc = "idle"
  /\ sw' = sw
  /\ task' = Begin("w", Call("w", "LazyWrite", modeLazy, "bw", "reset", handed, n))
  /\ handed' = handed + n
  /\ ncalls' = ncalls + 1
  /\ UNCHANGED <<src, seals, closed, readerVars>>

\* LazyWrite(p), len(p) = n: resets the flush action, then writes in lazy
\* mode.  It must not be concurrent with Flush.  (stream.go 121-124)
LazyWrite(n) ==
  /\ CanCall
  /\ task["w"].pc = "idle"
  /\ task["f"].pc = "idle" \/ MayOverlap
  /\ task["f"].pc = "idle"
  /\ sw' = [sw EXCEPT !.flush = "fresh"]
  /\ task' = Begin("w", Call("w", "LazyWrite", modeLazy, "bw", "reset", handed, n))
  /\ handed' = handed + n
  /\ ncalls' = ncalls + 1
  /\ UNCHANGED <<src, seals, closed, readerVars>>

\* Flush(), from the other thread: it may run while a Write or a ReadFrom
\* is running, never while a LazyWrite is.  (stream.go 126-132)
Flush ==
  /\ CanCall
  /\ task["f"].pc = "idle"
  /\ task["w"].pc = "idle" \/ (task["w"].op # "LazyWrite" /\ MayOverlap)
  /\ task' = Begin("f", Call("f", "Flush", modeFlush, "bw", "do", handed, 0))
  /\ ncalls' = ncalls + 1
  /\ UNCHANGED <<sw, src, seals, handed, closed, readerVars>>

\* sw.flush.Do(func() { sw.write(nil, modeFlush) }): the first caller since
\* the reset runs the function, a later one returns at once.  (stream.go 128)
FlushDo ==
  /\ task["f"].pc = "do"
  /\ \/ /\ sw.flush = "fresh"
        /\ sw' = [sw EXCEPT !.flush = "running"]
        /\ task' = [task EXCEPT !["f"].pc = "reset"]
     \/ /\ sw.flush = "done"
        /\ sw' = sw
        /\ task' = [task EXCEPT !["f"].pc = "idle"]
  /\ UNCHANGED <<src, seals, handed, ncalls, closed, readerVars>>

\* sw.byteWrapper.Reset(p)  (stream.go 116); p is nil in a flush.
Reset(t) ==
  /\ task[t].pc = "reset"
  /\ sw' = [sw EXCEPT !.byteWrapper = Run(task[t].arg[1], task[t].arg[2])]
  /\ task' = [task EXCEPT ![t].pc = "init"]
  /\ UNCHANGED <<src, seals, handed, ncalls, closed, readerVars>>

AfterInit(mode) == IF mode = modeNormal THEN "once" ELSE "prep"

\* init(): on the first call, a fresh salt, the AEAD, a zero counter and a
\* new buf that starts with the salt.  (stream.go 148, 74-94)
InitStep(t) ==
  /\ task[t].pc = "init"
  /\ IF sw.aead = NoAEAD
     THEN \E salt \in Salts :
            sw' = [sw EXCEPT !.aead = Derive(Secret, salt),
                             !.counter = ZeroBytes(NonceSize),
                             !.salt = salt,
                             !.payload = <<>>]
     ELSE sw' = sw
  /\ task' = [task EXCEPT ![t].pc = AfterInit(task[t].mode)]
  /\ UNCHANGED <<src, seals, handed, ncalls, closed, readerVars>>

\* A slip: a normal write goes on without taking the flush action.
OnceNoGuard(t) ==
  /\ task[t].pc = "once"
  /\ task' = [task EXCEPT ![t].pc = "prep"]
  /\ UNCHANGED <<sw, src, seals, handed, ncalls, closed, readerVars>>

\* sw.flush.Do(func() {}) of a normal write: it waits while a flush is
\* running, and leaves the flush action spent.  (stream.go 152-157)
Once(t) ==
  /\ task[t].pc = "once"
  /\ sw.flush # "running"
  /\ sw' = [sw EXCEPT !.flush = "done"]
  /\ task' = [task EXCEPT ![t].pc = "prep"]
  /\ UNCHANGED <<src, seals, handed, ncalls, closed, readerVars>>

\* A slip: every call's first write starts at the salt.
FirstStartAlways(counter) == 0

\* Where the first sink write of this call starts in sw.buf. (stream.go 162-170)
FirstStart(counter) == IF isZero(counter) THEN 0 ELSE SaltSize

Prep(t) ==
  /\ task[t].pc = "prep"
  /\ task' = [task EXCEPT ![t].start = FirstStart(sw.counter), ![t].pc = "loop"]
  /\ UNCHANGED <<sw, src, seals, handed, ncalls, closed, readerVars>>


\* ----------------------------------------------------- the readFrom loop

\* A slip: the counter is not incremented after the seal.
encryptBlockNoIncrement(aead, counter, bytes, data) ==
  [ct |-> Seal(aead, counter, bytes, data), counter |-> counter]

\* encryptBlock: seals the plaintext under the counter, then increments the
\* counter.  (stream.go 98-102)
encryptBlock(aead, counter, bytes, data) ==
  [ct |-> Seal(aead, counter, bytes, data), counter |-> increment(counter)]

\* A slip: a lazy write sends what is pending, like a normal one.
ShouldEmitLazy(pending, mode) ==
  pending = payloadSizeMask \/ pending > 0

\* A slip: a write that is not lazy sends a chunk even with nothing pending.
ShouldEmitEmpty(pending, mode) ==
  pending = payloadSizeMask \/ (mode # modeLazy /\ pending >= 0)

\* A slip: the buffer counts as filled one byte early.
ShouldEmitEarly(pending, mode) ==
  pending >= payloadSizeMask - 1 \/ (mode # modeLazy /\ pending > 0)

\* The test that decides whether the pending bytes go out.  (stream.go 180)
ShouldEmit(pending, mode) ==
  pending = payloadSizeMask \/ (mode # modeLazy /\ pending > 0)

\* A slip: the buffer handed to r.Read is not shortened by the pending bytes.
ReadBufLenWhole(pending) == payloadSizeMask

\* len(payloadBuf[sw.pending:payloadSizeMask])  (stream.go 177)
ReadBufLen(pending) == payloadSizeMask - pending

\* bytes.Reader.Read on sw.byteWrapper with a buffer of n bytes.
ByteWrapperRead(n) ==
  IF sw.byteWrapper = <<>>
  THEN {[got |-> <<>>, err |-> "EOF", bw |-> <<>>, src |-> src]}
  ELSE LET k == Min(n, DLen(sw.byteWrapper)) IN
       {[got |-> DTake(sw.byteWrapper, k), err |-> "nil",
         bw |-> DDrop(sw.byteWrapper, k), src |-> src]}

\* r.Read of the caller's source with a buffer of n bytes: it returns all it
\* can, or (a bounded number of times) fewer bytes; its end (io.EOF or some
\* other error) comes with the last bytes or after them.
SourceRead(n) ==
  IF src.data = <<>>
  THEN {[got |-> <<>>, err |-> src.term, bw |-> sw.byteWrapper, src |-> src]}
  ELSE LET full == Min(n, DLen(src.data))
           ks == {full} \cup (IF src.shorts > 0 /\ ShortRead < full
                             THEN {ShortRead} ELSE {})
       IN UNION {
            LET rest == DDrop(src.data, k)
                src1 == [src EXCEPT !.data = rest,
                                    !.shorts = IF k < full THEN @ - 1 ELSE @]
            IN { [got |-> DTake(src.data, k), err |-> e,
                  bw |-> sw.byteWrapper, src |-> src1] :
                 e \in (IF rest = <<>> THEN {"nil", src.term} ELSE {"nil"}) } :
            k \in ks }

\* A slip: r.Read puts its bytes at the start of payloadBuf.
AbsorbFront(payload, got) == DCat(got, payload)

\* payloadBuf[:pending] after r.Read has put its bytes at payloadBuf[pending:].
Absorb(payload, got) == DCat(payload, got)

\* The loop of readFrom, r.Read and the two counts.  (stream.go 177-179)
LoopRead(t) ==
  /\ task[t].pc = "loop"
  /\ \E read \in (IF task[t].from = "bw"
                  THEN ByteWrapperRead(ReadBufLen(sw.pending))
                  ELSE SourceRead(ReadBufLen(sw.pending))) :
       /\ sw' = [sw EXCEPT !.byteWrapper = read.bw,
                           !.pending = @ + DLen(read.got),
                           !.payload = Absorb(@, read.got)]
       /\ src' = read.src
       /\ task' = [task EXCEPT ![t].written = @ + DLen(read.got),
                               ![t].rerr = read.err,
                               ![t].pc = "test"]
  /\ UNCHANGED <<seals, handed, ncalls, closed, readerVars>>

\* The end of a turn of the loop with the error err: readFrom returns on
\* an error, io.EOF being no error to the caller.  A flush's function has
\* then returned, and flush.Do with it.  (stream.go 188-193, 128-131)
TurnEnd(t, err) ==
  /\ task' = [task EXCEPT ![t].pc = IF err = "nil" THEN "loop" ELSE "idle",
                          ![t].err = IF err \in {"nil", "EOF"} THEN "nil"
                                     ELSE "Failed to read payload"]
  /\ sw' = [sw EXCEPT !.flush = IF err # "nil" /\ task[t].mode = modeFlush
                                THEN "done" ELSE @]

\* The loop of readFrom, the test of line 180 and, when it holds, the two
\* seals and the write of the chunk to the sink.  (stream.go 180-184)
LoopEmit(t) ==
  /\ task[t].pc = "test"
  /\ IF ShouldEmit(sw.pending, task[t].mode)
     THEN LET size == encryptBlock(sw.aead, sw.counter, PutUint16(sw.pending), <<>>)
              payload == encryptBlock(sw.aead, size.counter, NoBytes,
                                      DTake(sw.payload, sw.pending))
              out == SegsFrom(<<SaltSeg(sw.salt), size.ct, payload.ct>>, task[t].start)
          IN /\ sw' = [sw EXCEPT !.counter = payload.counter,
                                 !.writer = Append(@, out)]
             /\ seals' = seals \o <<sw.counter, size.counter>>
             /\ task' = [task EXCEPT ![t].pc = "wrote",
                                     ![t].sent = DCat(@, payload.ct.data)]
     ELSE /\ TurnEnd(t, task[t].rerr)
          /\ seals' = seals
  /\ UNCHANGED <<src, handed, ncalls, closed, readerVars>>

\* The loop of readFrom after the sink's write has returned werr: err is
\* now the write's error, whatever r.Read returned; an io.EOF ends the
\* call as the source's end does, with no error.  (stream.go 184-193)
AfterWrite(t, werr) ==
  /\ task[t].pc = "wrote"
  /\ sw' = [sw EXCEPT !.pending = 0,
                      !.payload = <<>>,
                      !.flush = IF werr # "nil" /\ task[t].mode = modeFlush
                                THEN "done" ELSE @]
  /\ task' = [task EXCEPT ![t].start = SaltSize,
                          ![t].pc = IF werr = "nil" THEN "loop" ELSE "idle",
                          ![t].err = IF werr \in {"nil", "EOF"} THEN "nil"
                                     ELSE "Failed to read payload",
                          ![t].werr = werr]
  /\ UNCHANGED <<src, seals, handed, ncalls, closed, readerVars>>

\* The sink is closed once no call is running: the Reader's stream is all
\* the sink was written, in order.
RECURSIVE Flatten(_)
Flatten(ws) == IF ws = <<>> THEN <<>> ELSE ws[1] \o Flatten(Tail(ws))

Close ==
  /\ ~closed
  /\ \A t \in Tasks : task[t].pc = "idle"
  /\ closed' = TRUE
  /\ wire' = Flatten(sw.writer)
  /\ UNCHANGED <<writerVars, cr, conv, rd, delivered, nreads>>


\* ============================================================ the Reader

\* io.ReadFull(cr.reader, buf) with len(buf) = n on a stream that holds the
\* segments w and then ends: the n bytes read are one whole segment, or
\* they are junk (a part of a segment, or parts of several).
RECURSIVE SegsDrop(_, _)
SegsDrop(w, n) ==
  IF n = 0 \/ w = <<>> THEN w
  ELSE IF w[1].size <= n THEN SegsDrop(Tail(w), n - w[1].size)
  ELSE <<JunkSeg(w[1].size - n)>> \o Tail(w)

ReadFullOf(w, n, have) ==
  IF have = 0 THEN [err |-> "EOF", seg |-> JunkSeg(0), wire |-> w]
  ELSE IF have < n THEN [err |-> "ErrUnexpectedEOF", seg |-> JunkSeg(have), wire |-> <<>>]
  ELSE IF w[1].size = n THEN [err |-> "nil", seg |-> w[1], wire |-> Tail(w)]
  ELSE [err |-> "nil", seg |-> JunkSeg(n), wire |-> SegsDrop(w, n)]

ReadFull(w, n) == ReadFullOf(w, n, SegsSize(w))

\* The salt a block of SaltSize bytes is read as: 0 stands for any bytes
\* that no Writer chose as its salt.
SaltOf(seg) == IF seg.kind = "salt" THEN seg.salt ELSE 0

\* chunkReader.init once io.ReadFull has returned r.  (stream.go 236-247)
crInitSalt(c, r) ==
  IF r.err # "nil" THEN [err |-> r.err, cr |-> c, wire |-> r.wire]
  ELSE [err |-> "nil",
        cr |-> [aead |-> Derive(Secret, SaltOf(r.seg)),
                counter |-> ZeroBytes(NonceSize)],
        wire |-> r.wire]

\* chunkReader.init  (stream.go 232-250)
crInit(c, w) ==
  IF c.aead # NoAEAD THEN [err |-> "nil", cr |-> c, wire |-> w]
  ELSE crInitSalt(c, ReadFull(w, SaltSize))

\* aead.Open(dst, nonce, ciphertext, nil): the ciphertext authenticates
\* only under the key and the nonce it was sealed with.
Open(aead, nonce, seg) ==
  seg.kind = "ct" /\ seg.key = aead /\ seg.nonce = nonce

\* chunkReader.readMessage once io.ReadFull has returned r. (stream.go 258-266)
readMessageOpen(c, r) ==
  IF r.err # "nil" THEN [err |-> r.err, cr |-> c, wire |-> r.wire, seg |-> r.seg]
  ELSE [err |-> IF Open(c.aead, c.counter, r.seg) THEN "nil" ELSE "failed to decrypt",
        cr |-> [c EXCEPT !.counter = increment(c.counter)],
        wire |-> r.wire, seg |-> r.seg]

\* chunkReader.readMessage(buf) with len(buf) = n.  (stream.go 256-267)
readMessage(c, w, n) == readMessageOpen(c, ReadFull(w, n))

\* A slip: the length is taken as it is, without the mask.
ChunkSizeUnmasked(sizeBuf) == Uint16(sizeBuf)

\* int(binary.BigEndian.Uint16(sizeBuf) & payloadSizeMask)  (stream.go 283)
\* payloadSizeMask is 2^14 - 1, so the mask keeps the low 14 bits.
ChunkSize(sizeBuf) == Uint16(sizeBuf) % (payloadSizeMask + 1)

\* What ReadChunk returns.  ok: the buffer returned is not nil; sizeBuf: the
\* opened length block, when one was opened.
Chunk(err, ok, payload, c, w, sizeBuf) ==
  [err |-> err, ok |-> ok, payload |-> payload, cr |-> c, wire |-> w,
   sizeBuf |-> sizeBuf]

\* A slip: an io.EOF in place of the payload is passed on as it is.
ReadChunkPayloadRaw(sizeBuf, p) ==
  IF p.err # "nil"
  THEN Chunk(p.err, FALSE, <<>>, p.cr, p.wire, sizeBuf)
  ELSE Chunk("nil", TRUE, p.seg.data, p.cr, p.wire, sizeBuf)

\* ReadChunk once the payload's readMessage has returned p. (stream.go 290-296)
ReadChunkPayload(sizeBuf, p) ==
  IF p.err # "nil"
  THEN Chunk(IF p.err = "EOF" THEN "ErrUnexpectedEOF" ELSE p.err,
             FALSE, <<>>, p.cr, p.wire, sizeBuf)
  ELSE Chunk("nil", TRUE, p.seg.data, p.cr, p.wire, sizeBuf)

\* ReadChunk once the length's readMessage has returned m. (stream.go 277-290)
ReadChunkSize(m) ==
  IF m.err # "nil"
  THEN Chunk(IF m.err \in {"EOF", "ErrUnexpectedEOF"} THEN m.err
             ELSE "failed to read payload size: failed to decrypt",
             FALSE, <<>>, m.cr, m.wire, NoBytes)
  ELSE ReadChunkPayload(m.seg.bytes,
                        readMessage(m.cr, m.wire, ChunkSize(m.seg.bytes) + Overhead))

\* ReadChunk once init has returned i.  (stream.go 270-277)
ReadChunkInit(i) ==
  IF i.err # "nil" THEN Chunk(i.err, FALSE, <<>>, i.cr, i.wire, NoBytes)
  ELSE ReadChunkSize(readMessage(i.cr, i.wire, 2 + Overhead))

\* chunkReader.ReadChunk  (stream.go 269-297)
ReadChunk(c, w) == ReadChunkInit(crInit(c, w))

\* ensureLeftover once ReadChunk has returned k.  (stream.go 340-344)
ensureLeftoverChunk(v, k) ==
  [err |-> k.err, cr |-> k.cr, wire |-> k.wire, chunk |-> k.ok,
   conv |-> IF k.err # "nil" THEN v ELSE [v EXCEPT !.leftover = k.payload],
   sizeBuf |-> k.sizeBuf]

\* readConverter.ensureLeftover  (stream.go 335-345)
ensureLeftover(c, v, w) ==
  IF DLen(v.leftover) > 0
  THEN [err |-> "nil", cr |-> c, conv |-> v, wire |-> w, chunk |-> FALSE,
        sizeBuf |-> NoBytes]
  ELSE ensureLeftoverChunk(v, ReadChunk(c, w))

\* readConverter.Read once ensureLeftover has returned e: k bytes are copied
\* to b.  (stream.go 307-312)
ReadCopy(n, e, k) ==
  /\ cr' = e.cr
  /\ wire' = e.wire
  /\ conv' = [e.conv EXCEPT !.leftover = DDrop(@, k)]
  /\ delivered' = DCat(delivered, DTake(e.conv.leftover, k))
  /\ rd' = [op |-> "Read", n |-> k, err |-> e.err, len |-> n,
            chunk |-> e.chunk, sizeBuf |-> e.sizeBuf]

ReadLeftover(n, e) ==
  ReadCopy(n, e, IF e.err # "nil" THEN 0 ELSE Min(n, DLen(e.conv.leftover)))

\* readConverter.Read(b) with len(b) = n.  (stream.go 306-313)
Read(n) ==
  /\ closed
  /\ nreads < MaxReads
  /\ ReadLeftover(n, ensureLeftover(cr, conv, wire))
  /\ nreads' = nreads + 1
  /\ UNCHANGED <<writerVars, closed>>

\* ======================================================== specifications

WriterStep ==
  \/ \E t \in Tasks : Reset(t)
  \/ \E t \in Tasks : InitStep(t)
  \/ \E t \in Tasks : Prep(t)
  \/ \E t \in Tasks : LoopRead(t)
  \/ \E t \in Tasks : LoopEmit(t)
  \/ \E t \in Tasks : AfterWrite(t, "nil")
  \/ Once("w")
  \/ FlushDo

\* A call on the Writer begins, possibly while the other thread's runs.
WriterCall ==
  \/ \E n \in ArgSizes : Write(n)
  \/ \E n \in SrcSizes, term \in {"EOF", "ERR"} : ReadFrom(n, term)
  \/ \E n \in ArgSizes : LazyWrite(n)
  \/ Flush

Next ==
  \/ WriterCall /\ UNCHANGED <<listVars, serviceVars, nonceVars>>
  \/ WriterStep /\ UNCHANGED <<listVars, serviceVars, nonceVars>>

\* Every legal use of one Writer by its two threads: Flush may run while a
\* Write or a ReadFrom does.
Spec == Init /\ [][Next]_vars

NoCallRunning == \A t \in Tasks : task[t].pc = "idle"

NextSeq ==
  \/ NoCallRunning /\ ncalls < MaxSeqCalls /\ WriterCall /\ UNCHANGED <<listVars, serviceVars, nonceVars>>
  \/ WriterStep /\ UNCHANGED <<listVars, serviceVars, nonceVars>>
  \/ Close /\ UNCHANGED <<listVars, serviceVars, nonceVars>>
  \/ \E n \in ReadSizes : Read(n) /\ UNCHANGED <<listVars, serviceVars, nonceVars>>

\* One call at a time on the Writer, then a Reader over the sink's output.
SpecSeq == Init /\ [][NextSeq]_vars

\* What a failing write of the sink returns: io.EOF, or another error.
SinkErrors == {"EOF", "ERR"}

NextFail ==
  \/ NoCallRunning /\ ncalls < MaxSeqCalls /\ WriterCall
       /\ UNCHANGED <<listVars, serviceVars, nonceVars>>
  \/ WriterStep /\ UNCHANGED <<listVars, serviceVars, nonceVars>>
  \/ \E t \in Tasks, werr \in SinkErrors :
       AfterWrite(t, werr) /\ UNCHANGED <<listVars, serviceVars, nonceVars>>

\* One call at a time on a Writer whose sink may fail any of its writes.
SpecFail == Init /\ [][NextFail]_vars

\* A stream from a peer that holds the secret and frames as it likes: after
\* the salt, chunks whose length block is sealed under the stream's key (or,
\* forged, under another) and carries any 16-bit value, and whose payload
\* block carries as many bytes as the value says, or as its low 14 bits say.
RECURSIVE NonceAt(_)
NonceAt(k) == IF k = 0 THEN ZeroBytes(NonceSize) ELSE increment(NonceAt(k - 1))

ChunkChoices ==
  {c \in [len : WireLengths, carried : WireLengths,
          key : {Derive(Secret, 1)}, pkey : {Derive(Secret, 1)}] :
     c.carried \in {c.len, c.len % (payloadSizeMask + 1)}}

\* A chunk whose length block is sealed under another key, and one whose
\* payload block is (what an altered block is to the Reader).
ForgedChoice ==
  [len |-> 1, carried |-> 1, key |-> Derive("secret-2", 1), pkey |-> Derive(Secret, 1)]
CorruptChoice ==
  [len |-> 1, carried |-> 1, key |-> Derive(Secret, 1), pkey |-> Derive("secret-2", 1)]

CraftedChunk(k, c, lo) ==
  << Seal(c.key, NonceAt(2 * k - 2), PutUint16(c.len), <<>>),
     Seal(c.pkey, NonceAt(2 * k - 1), NoBytes, Run(lo, c.carried)) >>

RECURSIVE CraftedFrom(_, _)
CraftedFrom(k, lo) ==
  IF k > MaxChunks THEN {<<>>}
  ELSE {<<>>} \cup
       UNION { { CraftedChunk(k, c, lo) \o rest :
                 rest \in CraftedFrom(k + 1, lo + c.carried) } :
               c \in ChunkChoices \cup {ForgedChoice, CorruptChoice} }

\* The stream may end anywhere: after any of its blocks, or one byte into
\* the next block, or one byte short of its end.
Truncated(s) ==
  UNION { { SubSeq(s, 1, i) \o part :
            part \in (IF i = Len(s) THEN {<<>>}
                      ELSE {<<>>, <<JunkSeg(1)>>, <<JunkSeg(s[i + 1].size - 1)>>}) } :
          i \in 0..Len(s) }

CraftedStreams == UNION { Truncated(<<SaltSeg(1)>> \o s) : s \in CraftedFrom(1, 0) }

InitCrafted ==
  /\ InitWriter
  /\ InitReader
  /\ closed = TRUE
  /\ wire \in CraftedStreams
  /\ InitList
  /\ InitService
  /\ InitNonce

NextReader == \E n \in ReadSizes : Read(n) /\ UNCHANGED <<listVars, serviceVars, nonceVars>>

\* A Reader over a stream a peer has framed.
SpecReader == InitCrafted /\ [][NextReader]_vars

\* The counters increment is tried on: of each width, a run of 0xFF bytes
\* (none, some or all of the counter), then one byte that is not 0xFF,
\* then equal bytes to the end.
CounterOf(w, p, b, f) ==
  [i \in 1..w |-> IF i <= p THEN 255 ELSE IF i = p + 1 THEN b ELSE f]
Counters ==
  {CounterOf(w, p, b, f) :
     w \in Widths, p \in 0..NonceSize, b \in CounterBytes, f \in {0, 255}}

AllOnes(w) == CounterOf(w, w, 0, 0)

\* increment(ctr)
Increment ==
  /\ nincs < MaxIncrements
  /\ ctr' = increment(ctr)
  /\ nincs' = nincs + 1
  /\ UNCHANGED <<streamVars, listVars, serviceVars>>

\* A counter of any value with a Reader at the end of its stream, or a
\* counter of 0xFF bytes with a Reader over a stream a peer has framed.
InitCounters ==
  /\ InitWriter
  /\ InitReader
  /\ closed = TRUE
  /\ InitList
  /\ InitService
  /\ nincs = 0
  /\ \/ wire \in CraftedStreams /\ ctr = AllOnes(NonceSize)
     \/ wire = <<>> /\ ctr \in Counters

NextNonce ==
  \/ \E n \in ReadSizes : Read(n) /\ UNCHANGED <<listVars, serviceVars, nonceVars>>
  \/ Increment

\* increment on counters of several widths and values, and the Reader's
\* counter over framed, truncated and corrupted streams.
SpecNonce == InitCounters /\ [][NextNonce]_vars


\* ======================================================== the cipherList

\* What the properties call a state of the list.
ListState ==
  [list |-> cl.list, lastClientIP |-> cl.lastClientIP, whole |-> ~cl.writer]

\* The calls that hold, or are about to take, cl.mu.
Running(t) == lt[t].pc # "idle"

\* PushBack(id, cipher): list.PushBack of a new entry, its lastClientIP
\* nil.  It takes no lock.  (cipher_list.go 52-54)
PushBack ==
  /\ Len(cl.lastClientIP) < MaxEntries
  /\ cl' = [cl EXCEPT !.list = Append(@, Len(cl.lastClientIP) + 1),
                      !.lastClientIP = Append(@, "nil")]
  /\ lt' = [t \in ListTasks |->
              IF Running(t)
              THEN [lt[t] EXCEPT !.clean = FALSE]
              ELSE lt[t]]
  /\ UNCHANGED <<lcalls, streamVars, serviceVars, nonceVars>>

\* SafeSnapshotForClientIP(clientIP) is called.  (cipher_list.go 61)
SafeSnapshotForClientIP(t, clientIP) ==
  /\ lt[t].pc = "idle"
  /\ lcalls < MaxListCalls
  /\ lt' = [lt EXCEPT ![t] = [NoListCall EXCEPT !.pc = "RLock",
                                               !.op = "snapshot",
                                               !.clientIP = clientIP]]
  /\ lcalls' = lcalls + 1
  /\ UNCHANGED <<cl, streamVars, serviceVars, nonceVars>>

\* SafeMarkUsedByClientIP(e, clientIP) is called, e an element of the list.
\* (cipher_list.go 78)
SafeMarkUsedByClientIP(t, e, clientIP) ==
  /\ lt[t].pc = "idle"
  /\ lcalls < MaxListCalls
  /\ lt' = [lt EXCEPT ![t] = [NoListCall EXCEPT !.pc = "Lock",
                                               !.op = "mark",
                                               !.e = e,
                                               !.clientIP = clientIP]]
  /\ lcalls' = lcalls + 1
  /\ UNCHANGED <<cl, streamVars, serviceVars, nonceVars>>

\* A slip: the snapshot does not wait for the writer.
RLockNoWait(t) ==
  /\ lt[t].pc = "RLock"
  /\ cl' = [cl EXCEPT !.readers = @ + 1]
  /\ lt' = [lt EXCEPT ![t].pc = "front", ![t].at = ListState]
  /\ UNCHANGED <<lcalls, streamVars, serviceVars, nonceVars>>

\* cl.mu.RLock(): waits while a writer holds mu.  (cipher_list.go 62)
RLock(t) ==
  /\ lt[t].pc = "RLock"
  /\ ~cl.writer
  /\ cl' = [cl EXCEPT !.readers = @ + 1]
  /\ lt' = [lt EXCEPT ![t].pc = "front", ![t].at = ListState]
  /\ UNCHANGED <<lcalls, streamVars, serviceVars, nonceVars>>

\* list.Front(): 0 stands for nil.
Front(list) == IF list = <<>> THEN 0 ELSE list[1]

\* e.Next(): the element after e; for an element MoveToFront has unlinked
\* and not yet linked in again, the one it will stand before.
RECURSIVE ElemNext(_, _)
ElemNext(list, e) ==
  IF list = <<>> THEN 0
  ELSE IF list[1] = e THEN Front(Tail(list))
  ELSE IF \E i \in 1..Len(list) : list[i] = e THEN ElemNext(Tail(list), e)
  ELSE list[1]

\* The two make()s and e := cl.list.Front().  (cipher_list.go 64-67)
SnapshotFront(t) ==
  /\ lt[t].pc = "front"
  /\ lt' = [lt EXCEPT ![t].pc = "loop", ![t].e = Front(cl.list),
                      ![t].cipherArray = <<>>, ![t].remainingCiphers = <<>>]
  /\ UNCHANGED <<cl, lcalls, streamVars, serviceVars, nonceVars>>


\* A slip: a nil clientIP matches the entries no client has used.
matchesIPNil(e, clientIP) == clientIP = cl.lastClientIP[e]

\* matchesIP(e, clientIP)  (cipher_list.go 56-59)
matchesIP(e, clientIP) == clientIP # "nil" /\ clientIP = cl.lastClientIP[e]

\* One turn of the for loop: e goes to one of the two arrays, then
\* e = e.Next(); the loop ends at nil.  (cipher_list.go 67-73)
SnapshotLoop(t) ==
  /\ lt[t].pc = "loop"
  /\ IF lt[t].e = 0
     THEN lt' = [lt EXCEPT ![t].pc = "return"]
     ELSE IF matchesIP(lt[t].e, lt[t].clientIP)
     THEN lt' = [lt EXCEPT ![t].cipherArray = Append(@, lt[t].e),
                          ![t].e = ElemNext(cl.list, lt[t].e)]
     ELSE lt' = [lt EXCEPT ![t].remainingCiphers = Append(@, lt[t].e),
                          ![t].e = ElemNext(cl.list, lt[t].e)]
  /\ UNCHANGED <<cl, lcalls, streamVars, serviceVars, nonceVars>>

\* return append(cipherArray, remainingCiphers...), and the deferred
\* cl.mu.RUnlock().  (cipher_list.go 63, 75)
SnapshotReturn(t) ==
  /\ lt[t].pc = "return"
  /\ lt' = [lt EXCEPT ![t] = [NoListCall EXCEPT
                        !.op = "snapshot", !.clientIP = lt[t].clientIP,
                        !.ret = lt[t].cipherArray \o lt[t].remainingCiphers]]
  /\ cl' = [cl EXCEPT !.readers = @ - 1]
  /\ UNCHANGED <<lcalls, streamVars, serviceVars, nonceVars>>

\* A slip: the writer does not wait for the readers.
LockNoWait(t) ==
  /\ lt[t].pc = "Lock"
  /\ ~cl.writer
  /\ cl' = [cl EXCEPT !.writer = TRUE]
  /\ lt' = [lt EXCEPT ![t].pc = "unlink", ![t].at = ListState]
  /\ UNCHANGED <<lcalls, streamVars, serviceVars, nonceVars>>

\* cl.mu.Lock(): waits while a writer or any reader holds mu.
\* (cipher_list.go 79)
Lock(t) ==
  /\ lt[t].pc = "Lock"
  /\ ~cl.writer /\ cl.readers = 0
  /\ cl' = [cl EXCEPT !.writer = TRUE]
  /\ lt' = [lt EXCEPT ![t].pc = "unlink", ![t].at = ListState]
  /\ UNCHANGED <<lcalls, streamVars, serviceVars, nonceVars>>

RECURSIVE Without(_, _)
Without(list, e) ==
  IF list = <<>> THEN <<>>
  ELSE IF list[1] = e THEN Tail(list)
  ELSE <<list[1]>> \o Without(Tail(list), e)

\* cl.list.MoveToFront(e), its first half: nothing to do for the front
\* element; any other is unlinked.  (cipher_list.go 81)
MoveUnlink(t) ==
  /\ lt[t].pc = "unlink"
  /\ IF Front(cl.list) = lt[t].e
     THEN cl' = cl /\ lt' = [lt EXCEPT ![t].pc = "setip"]
     ELSE /\ cl' = [cl EXCEPT !.list = Without(@, lt[t].e)]
          /\ lt' = [lt EXCEPT ![t].pc = "relink"]
  /\ UNCHANGED <<lcalls, streamVars, serviceVars, nonceVars>>

\* A slip: the element is linked in at the back.
MoveRelinkBack(t) ==
  /\ lt[t].pc = "relink"
  /\ cl' = [cl EXCEPT !.list = Append(@, lt[t].e)]
  /\ lt' = [lt EXCEPT ![t].pc = "setip"]
  /\ UNCHANGED <<lcalls, streamVars, serviceVars, nonceVars>>

\* cl.list.MoveToFront(e), its second half: e is linked in at the front.
MoveRelink(t) ==
  /\ lt[t].pc = "relink"
  /\ cl' = [cl EXCEPT !.list = <<lt[t].e>> \o @]
  /\ lt' = [lt EXCEPT ![t].pc = "setip"]
  /\ UNCHANGED <<lcalls, streamVars, serviceVars, nonceVars>>

\* A slip: the client IP is taken away from the entries that had it.
SetLastClientIPOnly(t) ==
  /\ lt[t].pc = "setip"
  /\ cl' = [cl EXCEPT !.lastClientIP =
                        [j \in 1..Len(@) |->
                           IF j = lt[t].e THEN lt[t].clientIP
                           ELSE IF @[j] = lt[t].clientIP THEN "nil" ELSE @[j]],
                      !.lastMark = <<lt[t].e, lt[t].clientIP>>]
  /\ lt' = [lt EXCEPT ![t].pc = "unlock"]
  /\ UNCHANGED <<lcalls, streamVars, serviceVars, nonceVars>>

\* c.lastClientIP = clientIP  (cipher_list.go 83-84)
SetLastClientIP(t) ==
  /\ lt[t].pc = "setip"
  /\ cl' = [cl EXCEPT !.lastClientIP[lt[t].e] = lt[t].clientIP,
                      !.lastMark = <<lt[t].e, lt[t].clientIP>>]
  /\ lt' = [lt EXCEPT ![t].pc = "unlock"]
  /\ UNCHANGED <<lcalls, streamVars, serviceVars, nonceVars>>

\* The deferred cl.mu.Unlock().  (cipher_list.go 80)
Unlock(t) ==
  /\ lt[t].pc = "unlock"
  /\ cl' = [cl EXCEPT !.writer = FALSE]
  /\ lt' = [lt EXCEPT ![t] = NoListCall]
  /\ UNCHANGED <<lcalls, streamVars, serviceVars, nonceVars>>

NextList ==
  \/ PushBack
  \/ \E t \in ListTasks, ip \in ClientIPs : SafeSnapshotForClientIP(t, ip)
  \/ \E t \in ListTasks, ip \in ClientIPs, e \in 1..Len(cl.lastClientIP) :
       SafeMarkUsedByClientIP(t, e, ip)
  \/ \E t \in ListTasks : RLock(t)
  \/ \E t \in ListTasks : SnapshotFront(t)
  \/ \E t \in ListTasks : SnapshotLoop(t)
  \/ \E t \in ListTasks : SnapshotReturn(t)
  \/ \E t \in ListTasks : Lock(t)
  \/ \E t \in ListTasks : MoveUnlink(t)
  \/ \E t \in ListTasks : MoveRelink(t)
  \/ \E t \in ListTasks : SetLastClientIP(t)
  \/ \E t \in ListTasks : Unlock(t)

\* One cipherList used by two threads, with entries pushed at any moment.
SpecList == Init /\ [][NextList]_vars


\* ======================================================== the replay set

\* Thread t begins a call: the other thread's call, if one is running, is
\* no longer alone.
OtherAdd(t) == IF t = "a" THEN "b" ELSE "a"

\* add_if_new(tag) is called.
AddIfNew(t, tag) ==
  /\ rt[t].pc = "idle"
  /\ rcalls < MaxAdds
  /\ rt' = [rt EXCEPT ![t] = [NoAdd EXCEPT !.pc = "lock", !.tag = tag,
                                          !.alone = rt[OtherAdd(t)].pc = "idle"],
                      ![OtherAdd(t)].alone = @ /\ rt[OtherAdd(t)].pc = "idle"]
  /\ rcalls' = rcalls + 1
  /\ UNCHANGED <<rs, radds, streamVars, listVars, natVars, tcpVars, nonceVars>>

\* A slip: the call goes on without the mutex.
AcquireNoWait(t) ==
  /\ rt[t].pc = "lock"
  /\ rs' = [rs EXCEPT !.mutex = t]
  /\ rt' = [rt EXCEPT ![t].pc = "probe",
                      ![t].before = [current |-> rs.current, previous |-> rs.previous]]
  /\ UNCHANGED <<radds, rcalls, streamVars, listVars, natVars, tcpVars, nonceVars>>

\* The single mutex is taken: the call waits while another holds it.
Acquire(t) ==
  /\ rt[t].pc = "lock"
  /\ rs.mutex = "free"
  /\ rs' = [rs EXCEPT !.mutex = t]
  /\ rt' = [rt EXCEPT ![t].pc = "probe",
                      ![t].before = [current |-> rs.current, previous |-> rs.previous]]
  /\ UNCHANGED <<radds, rcalls, streamVars, listVars, natVars, tcpVars, nonceVars>>

\* The membership test is the union of the two generations.
Present(tag) == tag \in rs.current \cup rs.previous

\* The probe: a tag that is present makes the call return false.
Probe(t) ==
  /\ rt[t].pc = "probe"
  /\ rt' = [rt EXCEPT ![t].pc = IF Present(rt[t].tag) THEN "unlock" ELSE "insert",
                      ![t].ret = ~Present(rt[t].tag)]
  /\ UNCHANGED <<rs, radds, rcalls, streamVars, listVars, natVars, tcpVars, nonceVars>>

\* A slip: on rotation the full current generation is dropped.
RotatedDropCurrent(set, tag) ==
  IF Cardinality(set.current) >= set.capacity
  THEN [set EXCEPT !.current = {tag}]
  ELSE [set EXCEPT !.current = @ \cup {tag}]

\* The insert: into current; on insert to a full current, previous is
\* dropped, current becomes previous and a fresh current takes the tag.
Rotated(set, tag) ==
  IF Cardinality(set.current) >= set.capacity
  THEN [set EXCEPT !.previous = set.current, !.current = {tag}]
  ELSE [set EXCEPT !.current = @ \cup {tag}]

Insert(t) ==
  /\ rt[t].pc = "insert"
  /\ rs' = Rotated(rs, rt[t].tag)
  /\ radds' = Append(radds, rt[t].tag)
  /\ rt' = [rt EXCEPT ![t].pc = "unlock"]
  /\ UNCHANGED <<rcalls, streamVars, listVars, natVars, tcpVars, nonceVars>>

\* The mutex is released and the call returns.
Release(t) ==
  /\ rt[t].pc = "unlock"
  /\ rs' = [rs EXCEPT !.mutex = "free"]
  /\ rt' = [rt EXCEPT ![t].pc = "idle"]
  /\ UNCHANGED <<radds, rcalls, streamVars, listVars, natVars, tcpVars, nonceVars>>

InitAnyReplay ==
  /\ InitStream
  /\ InitList
  /\ \E n \in 1..MaxWindow : InitReplay(n)
  /\ InitNat
  /\ InitTcp
  /\ InitNonce

NextReplay ==
  \/ \E t \in ReplayTasks, tag \in 1..MaxTags : AddIfNew(t, tag)
  \/ \E t \in ReplayTasks : Acquire(t)
  \/ \E t \in ReplayTasks : Probe(t)
  \/ \E t \in ReplayTasks : Insert(t)
  \/ \E t \in ReplayTasks : Release(t)

\* One replay set of some capacity, used by two threads.
SpecReplay == InitAnyReplay /\ [][NextReplay]_vars



\* ====================================================== the UDP NAT table

\* The client address has an entry.
Live(c) == nat[c].sock # 0

\* An entry is destroyed: its target socket is closed.
Closed(ss, i) == [j \in 1..Len(ss) |-> IF j = i THEN "closed" ELSE ss[j]]

\* A slip: an entry found for the client address is never reused.
ReusesNever(c, k) == FALSE

\* The lookup: the client address has an entry, under the same key ID.
Reuses(c, k) == Live(c) /\ nat[c].keyID = k

\* An entry is created for client address c under key ID k: a fresh target
\* socket is opened, a reader task is spawned for it, the key ID and the
\* time are recorded.  An entry c had under another key ID is replaced:
\* destroyed, which closes its socket.
CreateEntry(c, k) ==
  /\ Len(socks) < MaxSockets
  /\ socks' = Append(Closed(socks, nat[c].sock), "open")
  /\ readers' = Append(readers, [sock |-> Len(socks) + 1, pc |-> "reading"])
  /\ nat' = [nat EXCEPT ![c] = [keyID |-> k, sock |-> Len(socks) + 1,
                                last |-> natClock, up |-> 1]]
  /\ natAdded' = natAdded + 1
  /\ natRemoved' = natRemoved + (IF Live(c) THEN 1 ELSE 0)

\* A datagram from client address c that opens under key ID k: the entry
\* is looked up, reused or created, and the datagram goes to the target.
Datagram(c, k) ==
  /\ natSeen' = natSeen \cup {<<c, k>>}
  /\ IF Reuses(c, k)
     THEN /\ nat[c].up < MaxUp
          /\ nat' = [nat EXCEPT ![c].last = natClock, ![c].up = @ + 1]
          /\ UNCHANGED <<socks, readers, natAdded, natRemoved>>
     ELSE CreateEntry(c, k)
  /\ UNCHANGED <<natClock, replayVars, tcpVars, nonceVars, streamVars, listVars>>

\* The entry the target socket of reader task i belongs to, if any.
OwnerOf(i) == {c \in NatClients : nat[c].sock = readers[i].sock}

\* The reader task reads a datagram from its target socket and sends the
\* response to the client address; when the socket is closed it exits.
ReaderStep(i) ==
  /\ readers[i].pc = "reading"
  /\ IF socks[readers[i].sock] = "closed"
     THEN /\ readers' = [readers EXCEPT ![i].pc = "exited"]
          /\ UNCHANGED nat
     ELSE /\ nat' = [c \in NatClients |->
                      IF c \in OwnerOf(i) THEN [nat[c] EXCEPT !.last = natClock]
                      ELSE nat[c]]
          /\ nat' # nat
          /\ UNCHANGED readers
  /\ UNCHANGED <<socks, natClock, natAdded, natRemoved, natSeen, replayVars, tcpVars, nonceVars,
                 streamVars, listVars>>

\* Time passes.
NatTick ==
  /\ natClock < MaxNatClock
  /\ natClock' = natClock + 1
  /\ UNCHANGED <<nat, socks, readers, natAdded, natRemoved, natSeen,
                 replayVars, tcpVars, nonceVars, streamVars, listVars>>

\* The entry has been idle for the timeout.
Idle(c) == Live(c) /\ natClock - nat[c].last >= NatTimeout

\* Idle eviction: the entry is removed and its target socket closed.
Evict(c) ==
  /\ Idle(c)
  /\ nat' = [nat EXCEPT ![c] = NoEntry]
  /\ socks' = Closed(socks, nat[c].sock)
  /\ natRemoved' = natRemoved + 1
  /\ UNCHANGED <<readers, natClock, natAdded, natSeen, replayVars, tcpVars, nonceVars, streamVars,
                 listVars>>

NextNat ==
  \/ \E c \in NatClients, k \in KeyIDs : Datagram(c, k)
  \/ \E i \in 1..MaxSockets : i <= Len(readers) /\ ReaderStep(i)
  \/ NatTick
  \/ \E c \in NatClients : Evict(c)

\* The UDP service: datagrams of two clients under two keys, the reader
\* tasks, the clock and the idle eviction.
SpecNat == Init /\ [][NextNat]_vars

\* ===================================================== the TCP service

\* A connection is accepted; its first bytes arrive.  The timeout is set
\* as its deadline.
Accept(i, key, tag) ==
  /\ conn[i].state = "none"
  /\ i > 1 => conn[i - 1].state # "none"
  /\ conn' = [conn EXCEPT ![i] = [NoConn EXCEPT !.state = "accepted",
                                                !.key = key, !.tag = tag,
                                                !.left = TcpTimeout]]
  /\ UNCHANGED <<replayVars, natVars, nonceVars, streamVars, listVars>>

\* Step 1, identify key: some candidate key opens the first length block,
\* or none does and the connection is a failed probe.
Identify(i) ==
  /\ conn[i].state = "accepted"
  /\ conn' = [conn EXCEPT ![i].state = IF conn[i].key \in ServerKeys
                                        THEN "identified" ELSE "probe",
                          ![i].status = IF conn[i].key \in ServerKeys
                                        THEN "none" ELSE "ERR_CIPHER"]
  /\ UNCHANGED <<replayVars, natVars, nonceVars, streamVars, listVars>>

\* Step 2, replay check: the replay tag is put to the replay set; a tag
\* that is present makes the connection a probe.  Steps 3 and 4 follow
\* otherwise: the connection is relayed.
ReplayCheck(i) ==
  /\ conn[i].state = "identified"
  /\ rs.mutex = "free"
  /\ IF Present(conn[i].tag)
     THEN /\ conn' = [conn EXCEPT ![i].state = "probe", ![i].status = "ERR_REPLAY"]
          /\ UNCHANGED <<rs, radds>>
     ELSE /\ conn' = [conn EXCEPT ![i].state = "relaying", ![i].left = 0]
          /\ rs' = Rotated(rs, conn[i].tag)
          /\ radds' = Append(radds, conn[i].tag)
  /\ UNCHANGED <<rt, rcalls, natVars, nonceVars, streamVars, listVars>>

\* The relay writes to the client what the target sent.
Relay(i) ==
  /\ conn[i].state = "relaying"
  /\ conn[i].written < MaxWritten
  /\ conn' = [conn EXCEPT ![i].written = @ + 1]
  /\ UNCHANGED <<replayVars, natVars, nonceVars, streamVars, listVars>>

\* The relay completes and the connection is closed.
Finish(i) ==
  /\ conn[i].state = "relaying"
  /\ conn' = [conn EXCEPT ![i].state = "closed", ![i].status = "OK"]
  /\ UNCHANGED <<replayVars, natVars, nonceVars, streamVars, listVars>>

\* A probe's inbound bytes are read and discarded.
Discard(i) ==
  /\ conn[i].state = "probe"
  /\ conn[i].discarded < MaxInbound
  /\ conn' = [conn EXCEPT ![i].discarded = @ + 1]
  /\ UNCHANGED <<replayVars, natVars, nonceVars, streamVars, listVars>>

\* Time passes: every deadline comes nearer.
TcpTick ==
  /\ \E i \in 1..MaxConns : conn[i].left > 0
  /\ conn' = [i \in 1..MaxConns |->
               [conn[i] EXCEPT !.left = IF @ > 0 THEN @ - 1 ELSE 0]]
  /\ UNCHANGED <<replayVars, natVars, nonceVars, streamVars, listVars>>

\* A slip: a probe is closed on detection.
ExpiredAtOnce(i) == TRUE

\* The connection's deadline has come.
Expired(i) == conn[i].left = 0

\* A probe is read up to the deadline and then closed.
Expire(i) ==
  /\ conn[i].state = "probe"
  /\ Expired(i)
  /\ conn' = [conn EXCEPT ![i].state = "closed"]
  /\ UNCHANGED <<replayVars, natVars, nonceVars, streamVars, listVars>>

NextTcp ==
  \/ \E i \in 1..MaxConns, key \in ServerKeys \cup {"noise"}, tag \in 1..2 :
       Accept(i, key, tag)
  \/ \E i \in 1..MaxConns : Identify(i)
  \/ \E i \in 1..MaxConns : ReplayCheck(i)
  \/ \E i \in 1..MaxConns : Relay(i)
  \/ \E i \in 1..MaxConns : Finish(i)
  \/ \E i \in 1..MaxConns : Discard(i)
  \/ TcpTick
  \/ \E i \in 1..MaxConns : Expire(i)

\* The service has run before: its replay set is empty, or holds the tag
\* of a connection it served earlier.
InitTcpService ==
  /\ InitStream
  /\ InitList
  /\ InitNat
  /\ InitTcp
  /\ InitNonce
  /\ rt = [t \in ReplayTasks |-> NoAdd]
  /\ rcalls = 0
  /\ \E served \in {<<>>, <<1>>} :
       /\ radds = served
       /\ rs = [NewReplaySet(1) EXCEPT !.current = {served[j] : j \in 1..Len(served)}]

\* The TCP service: connections with genuine, replayed and random first
\* bytes, the replay set and the deadlines.
SpecTcp == InitTcpService /\ [][NextTcp]_vars

\* ============================================================ properties

\* The sealed length and the sealed payload of the k-th write on the sink.
SizeBlock(k) == sw.writer[k][Len(sw.writer[k]) - 1]
PayloadBlock(k) == sw.writer[k][Len(sw.writer[k])]

\* The plaintext the sink's chunks carry, in the order of the writes.
RECURSIVE PlainOf(_)
PlainOf(ws) ==
  IF ws = <<>> THEN <<>> ELSE DCat(ws[1][Len(ws[1])].data, PlainOf(Tail(ws)))
SinkPlain == PlainOf(sw.writer)

\* All the bytes handed to the Writer so far, in the order of the calls.
Handed == Run(0, handed)

\* The runs of block d cut down to the bytes lo .. hi-1.
RECURSIVE Within(_, _, _)
Within(d, lo, hi) ==
  IF d = <<>> THEN <<>>
  ELSE LET a == IF d[1][1] > lo THEN d[1][1] ELSE lo
           b == IF d[1][2] < hi THEN d[1][2] ELSE hi
       IN (IF a < b THEN << <<a, b>> >> ELSE <<>>) \o Within(Tail(d), lo, hi)

Disjoint(d) ==
  \A i, j \in 1..Len(d) : i < j => (d[i][2] <= d[j][1] \/ d[j][2] <= d[i][1])

\* Every byte lo .. hi-1 occurs in block d exactly once / at most once / never.
ExactlyOnce(d, lo, hi) ==
  LET w == Within(d, lo, hi) IN Disjoint(w) /\ DLen(w) = hi - lo
AtMostOnce(d, lo, hi) == Disjoint(Within(d, lo, hi))
Never(d, lo, hi) == Within(d, lo, hi) = <<>>

\* The model's own consistency: payloadBuf[:pending] holds pending bytes.
TypeOK ==
  /\ DLen(sw.payload) = sw.pending
  /\ sw.pending \in 0..payloadSizeMask
  /\ sw.flush \in {"fresh", "running", "done"}
  /\ \A t \in Tasks : task[t].pc \in {"idle", "do", "reset", "init", "once",
                                      "prep", "loop", "test", "wrote"}

\* C1 (round trip).  Whatever calls handed the bytes to the Writer, a Reader
\* with the same cipher over the sink's output never fails, delivers the
\* handed bytes in order (at every moment a prefix of them), and once it has
\* delivered all that was sent it reports io.EOF; at io.EOF the bytes
\* delivered, followed by those a LazyWrite left pending and no Flush or
\* write has sent, are exactly the bytes handed in.
C1_RoundTrip ==
  closed =>
    /\ rd.err \in {"nil", "EOF"}
    /\ delivered = DTake(Handed, DLen(delivered))
    /\ rd.err = "EOF" => DCat(delivered, sw.payload) = Handed
    /\ (wire = <<>> /\ conv.leftover = <<>>) =>
         ensureLeftover(cr, conv, wire).err = "EOF"

\* A call of more than 16383 bytes through LazyWrite and Flush has come
\* back whole, and the Reader has reported the end.
C1_Witness ==
  /\ closed /\ rd.err = "EOF"
  /\ handed > payloadSizeMask
  /\ delivered = Handed
  /\ task["w"].op = "LazyWrite" /\ task["f"].op = "Flush"
  /\ Len(sw.writer) = 2


\* C2 (nonce non-reuse).  The nonces presented to aead.Seal are 0, 1, 2, ...
\* in this order, two for each chunk written to the sink: the k-th chunk's
\* length is sealed under 2(k-1) and its payload under 2(k-1)+1.
C2_NonceSequence ==
  /\ \A i \in 1..Len(seals) : LEValue(seals[i]) = i - 1
  /\ Len(seals) \in {2 * Len(sw.writer), 2 * Len(sw.writer) + 2}
  /\ \A k \in 1..Len(sw.writer) :
       /\ SizeBlock(k).nonce = seals[2 * k - 1]
       /\ PayloadBlock(k).nonce = seals[2 * k]
  /\ (\A t \in Tasks : task[t].pc # "wrote") => Len(seals) = 2 * Len(sw.writer)

\* Three chunks have been sealed, by a flush that ran during a write.
C2_Witness ==
  /\ Len(seals) = 6
  /\ task["f"].sent # <<>> /\ ~task["f"].alone
  /\ task["w"].sent # <<>>

\* C3 (chunk size).  Every chunk on the sink announces the length L of its
\* payload, 1 <= L <= 16383, in a length field whose top two bits are zero.
C3_ChunkSize ==
  \A k \in 1..Len(sw.writer) :
    LET L == DLen(PayloadBlock(k).data) IN
    /\ L >= 1 /\ L <= 16383
    /\ SizeBlock(k).bytes = PutUint16(L)
    /\ Uint16(SizeBlock(k).bytes) = L
    /\ SizeBlock(k).bytes[1] \div 64 = 0

\* A full chunk sent by a LazyWrite, the rest sent by a Flush, after an
\* empty Write that sent nothing.
C3_Witness ==
  /\ Len(sw.writer) = 2
  /\ DLen(PayloadBlock(1).data) = payloadSizeMask
  /\ DLen(PayloadBlock(2).data) = 1
  /\ task["w"].op = "LazyWrite" /\ task["w"].sent # <<>>
  /\ task["f"].op = "Flush" /\ task["f"].sent # <<>>
  /\ ncalls = 3

\* C4 (salt placement).  The first write on the sink is the salt, the first
\* sealed length and the first sealed payload; no later write holds a salt.
IsChunk(w) == Len(w) = 2 /\ w[1].kind = "ct" /\ w[2].kind = "ct"
C4_SaltOnce ==
  \A k \in 1..Len(sw.writer) :
    LET w == sw.writer[k] IN
    IF k = 1
    THEN /\ Len(w) = 3
         /\ w[1] = SaltSeg(sw.salt) /\ sw.salt \in Salts
         /\ IsChunk(Tail(w))
         /\ LEValue(w[2].nonce) = 0
    ELSE IsChunk(w)

\* The first chunk came from a Flush, a later one from a Write.
C4_Witness ==
  /\ Len(sw.writer) >= 2
  /\ task["f"].op = "Flush" /\ task["f"].sink0 = 0 /\ task["f"].sent # <<>>
  /\ task["w"].op = "Write" /\ task["w"].sent # <<>>


\* A call of thread t returns in this step.
Returns(t, op) ==
  /\ task[t].op = op /\ task[t].pc # "idle"
  /\ task'[t].pc = "idle"

\* C5 as claimed (lazy_write only buffers).  When a LazyWrite(p) returns,
\* the sink has had no write since the call began and the pending bytes are
\* those of before followed by p.
C5_LazyWriteNeverWrites ==
  [][Returns("w", "LazyWrite") =>
       /\ Len(sw'.writer) = task["w"].sink0
       /\ sw'.payload = DCat(task["w"].held, Run(task["w"].arg[1], task["w"].arg[2]))]_vars

\* C5 amended.  A LazyWrite(p) takes all of p and returns no error; with h
\* bytes pending before it, it writes (h + len(p)) div 16383 chunks of
\* exactly 16383 bytes, so none when h + len(p) < 16383, and leaves pending
\* the last (h + len(p)) mod 16383 bytes of what was pending followed by p.
C5_LazyWriteBuffers ==
  [][Returns("w", "LazyWrite") =>
       LET T == task["w"]
           all == DCat(T.held, Run(T.arg[1], T.arg[2]))
           full == DLen(all) \div payloadSizeMask
       IN /\ task'["w"].written = T.arg[2] /\ task'["w"].err = "nil"
          /\ Len(sw'.writer) = T.sink0 + full
          /\ \A k \in (T.sink0 + 1)..Len(sw'.writer) :
               sw'.writer[k][Len(sw'.writer[k])].data =
                 DTake(DDrop(all, (k - T.sink0 - 1) * payloadSizeMask), payloadSizeMask)
          /\ sw'.payload = DDrop(all, full * payloadSizeMask)
          /\ sw'.pending = DLen(all) % payloadSizeMask]_vars

\* A LazyWrite that found bytes pending has filled the buffer, sent one full
\* chunk and kept the rest.
C5_Witness ==
  /\ task["w"].op = "LazyWrite" /\ task["w"].pc = "idle"
  /\ task["w"].held # <<>>
  /\ DLen(task["w"].sent) = payloadSizeMask
  /\ sw.pending > 0

\* C6 (absorb, then write).  Calls made one after the other: when a
\* Write(p) or a ReadFrom(r) with data has returned and bytes H were pending
\* when it began, the first chunk it wrote starts with H and goes on with the
\* first bytes of the new data (for a Write, as many as fill the chunk to
\* 16383 bytes), the call has sent H followed by all the new data, and the
\* plaintext of the chunks on the sink is every argument so far in call
\* order.  Whenever no call is running, the chunks' plaintext followed by
\* the pending bytes is every argument in call order.
C6_AbsorbThenWrite ==
  /\ NoCallRunning => DCat(SinkPlain, sw.payload) = Handed
  /\ LET T == task["w"]
         new == Run(T.arg[1], T.arg[2])
     IN (/\ T.op \in {"Write", "ReadFrom"} /\ T.pc = "idle"
         /\ T.held # <<>> /\ T.arg[2] > 0) =>
          /\ Len(sw.writer) > T.sink0
          /\ DLen(PayloadBlock(T.sink0 + 1).data) > DLen(T.held)
          /\ PayloadBlock(T.sink0 + 1).data =
               DTake(DCat(T.held, new), DLen(PayloadBlock(T.sink0 + 1).data))
          /\ T.op = "Write" =>
               DLen(PayloadBlock(T.sink0 + 1).data) =
                 Min(DLen(T.held) + T.arg[2], payloadSizeMask)
          /\ T.sent = DCat(T.held, new)
          /\ task["f"].pc = "idle" => SinkPlain = Handed

\* A Write of 16384 bytes after a LazyWrite of one: two chunks, the first
\* full with the pending byte in front.
C6_Witness ==
  /\ task["w"].op = "Write" /\ task["w"].pc = "idle"
  /\ DLen(task["w"].held) = 1 /\ task["w"].arg[2] = 16384
  /\ Len(sw.writer) = task["w"].sink0 + 2
  /\ DLen(PayloadBlock(task["w"].sink0 + 1).data) = payloadSizeMask

\* C7 (one-shot flush guard).  With a Flush of the other thread running at
\* any point of a Write or a ReadFrom: no handed byte is ever on the sink
\* twice, and once both calls have returned every byte that was pending
\* when the Write or ReadFrom began is on the sink exactly once, sent by
\* the one call or by the other, never by both and never by neither.
C7_FlushOnce ==
  /\ Disjoint(SinkPlain)
  /\ LET T == task["w"] IN
       (T.op \in {"Write", "ReadFrom"} /\ NoCallRunning) =>
         /\ \A i \in 1..Len(T.held) :
              ExactlyOnce(SinkPlain, T.held[i][1], T.held[i][2])
         /\ sw.pending = 0

\* A Flush ran during a Write that found bytes pending, took the flush
\* action first and sent them; the Write sent its own bytes after it.
C7_Witness ==
  /\ NoCallRunning
  /\ task["w"].op = "Write" /\ task["f"].op = "Flush"
  /\ ~task["w"].alone /\ ~task["f"].alone
  /\ task["w"].held # <<>>
  /\ task["f"].sent = task["w"].held
  /\ task["w"].sent = Run(task["w"].arg[1], task["w"].arg[2])
  /\ task["w"].arg[2] > 0

\* C8 (Flush is safe against a concurrent Write).  When a Write(p) that
\* began with lazily written bytes H pending has returned, with a Flush of
\* the other thread running at any point of it or not, and that Flush has
\* returned too: the Write returned len(p) and no error, every byte of p is on the sink
\* exactly once, the sink carries the handed bytes in the order they were
\* handed in (p after the bytes that were pending), and no byte of p was
\* sent by the Flush.
C8_FlushSafeWithWrite ==
  LET T == task["w"]
      lo == T.arg[1]
      hi == T.arg[1] + T.arg[2]
  IN (T.op = "Write" /\ T.held # <<>> /\ NoCallRunning) =>
       /\ T.written = T.arg[2] /\ T.err = "nil"
       /\ ExactlyOnce(SinkPlain, lo, hi)
       /\ SinkPlain = DTake(Handed, DLen(SinkPlain))
       /\ task["f"].op = "Flush" => Never(task["f"].sent, lo, hi)

\* The Write's byteWrapper.Reset(p) came before the Flush's
\* byteWrapper.Reset(nil): the Write read io.EOF at once and returned 0 and
\* no error, and its bytes are nowhere, neither on the sink nor pending.
C8_Lost ==
  /\ NoCallRunning
  /\ task["w"].op = "Write" /\ task["w"].arg[2] > 0
  /\ task["w"].held # <<>> /\ task["f"].sent = task["w"].held
  /\ task["w"].written = 0 /\ task["w"].err = "nil"
  /\ Never(SinkPlain, task["w"].arg[1], task["w"].arg[1] + task["w"].arg[2])
  /\ sw.pending = 0 /\ sw.byteWrapper = <<>>

\* The Flush's loop read the Write's bytes from the shared byteWrapper and
\* sent them itself.
C8_SentByFlush ==
  /\ NoCallRunning
  /\ task["w"].op = "Write" /\ task["w"].arg[2] > 0
  /\ task["f"].op = "Flush" /\ task["w"].held # <<>>
  /\ ~Never(task["f"].sent, task["w"].arg[1], task["w"].arg[1] + task["w"].arg[2])

\* C9 (Flush idempotence).  When a Flush returns that no call of the other
\* thread has run during: it returns no error; if bytes were pending when
\* it began it has written exactly one chunk, whose payload is those bytes,
\* with two seals; if none were pending (a second Flush, a Flush after a
\* Write or a ReadFrom, a Flush on a Writer with nothing written lazily) it
\* has written nothing and sealed nothing, and the nonce counter has the
\* value it had.  Nothing is pending afterwards.
C9_FlushIdempotent ==
  [][(Returns("f", "Flush") /\ task'["f"].alone) =>
       LET T == task'["f"] IN
         /\ T.err = "nil"
         /\ sw'.pending = 0 /\ sw'.payload = <<>>
         /\ LEValue(sw'.counter) = Len(seals')
         /\ IF T.held # <<>>
            THEN /\ Len(sw'.writer) = T.sink0 + 1
                 /\ sw'.writer[T.sink0 + 1][Len(sw'.writer[T.sink0 + 1])].data = T.held
                 /\ Len(seals') = T.seals0 + 2
            ELSE /\ sw'.writer = sw.writer
                 /\ Len(sw'.writer) = T.sink0
                 /\ Len(seals') = T.seals0]_vars

\* LazyWrite, Flush, Flush: the first Flush has sent the lazily written
\* bytes as one chunk, the second has returned and the sink has that one
\* chunk still.
C9_Witness ==
  /\ NoCallRunning /\ ncalls = 3
  /\ task["w"].op = "LazyWrite" /\ task["w"].arg[2] > 0 /\ task["w"].sent = <<>>
  /\ task["f"].op = "Flush" /\ task["f"].alone
  /\ task["f"].held = <<>> /\ task["f"].sink0 = 1
  /\ Len(sw.writer) = 1
  /\ PayloadBlock(1).data = Run(task["w"].arg[1], task["w"].arg[2])

C12_OpenFailureFatal ==
  [][(/\ rd.err \in {"failed to decrypt",
                     "failed to read payload size: failed to decrypt"}
      /\ nreads' = nreads + 1) =>
       /\ rd'.err # "nil"
       /\ rd'.n = 0
       /\ delivered' = delivered]_vars

\* The payload block of the first chunk did not open and the first Read
\* failed; the second Read opened the second chunk and delivered its byte:
\* the Reader has delivered byte 1 of the peer's plaintext without byte 0.
C12_Skipped ==
  /\ nreads = 2
  /\ rd.op = "Read" /\ rd.err = "nil" /\ rd.chunk
  /\ delivered = Run(1, 1)

\* A snapshot returns: the step of thread t that ends its
\* SafeSnapshotForClientIP.
SnapshotReturns(t) == lt[t].pc = "return" /\ lt'[t].pc = "idle"

\* The entries of list whose lastClientIP is (match) or is not (~match)
\* ip, in the order of list.
RECURSIVE EntriesWith(_, _, _, _)
EntriesWith(list, last, ip, match) ==
  IF list = <<>> THEN <<>>
  ELSE (IF (last[list[1]] = ip) = match THEN <<list[1]>> ELSE <<>>)
       \o EntriesWith(Tail(list), last, ip, match)

\* C13 as claimed (snapshot_for ordering).  A snapshot for clientIP, with
\* no PushBack during it, returns the entries of the list whose
\* lastClientIP equals clientIP, in list order, then all the others in list
\* order, whatever clientIP is.
C13_SnapshotOrder ==
  [][\A t \in ListTasks :
       (SnapshotReturns(t) /\ lt[t].clean) =>
         lt'[t].ret =
           EntriesWith(cl.list, cl.lastClientIP, lt[t].clientIP, TRUE) \o
           EntriesWith(cl.list, cl.lastClientIP, lt[t].clientIP, FALSE)]_vars

\* C13 amended.  The same for a clientIP that is not nil; for a nil
\* clientIP no entry counts as matching, also not those whose lastClientIP
\* is nil, and the snapshot is the list in its order.  Either way the
\* snapshot holds every entry of the list exactly once.
C13_SnapshotOrderNotNil ==
  [][\A t \in ListTasks :
       (SnapshotReturns(t) /\ lt[t].clean) =>
         /\ lt'[t].ret =
              IF lt[t].clientIP = "nil" THEN cl.list
              ELSE EntriesWith(cl.list, cl.lastClientIP, lt[t].clientIP, TRUE) \o
                   EntriesWith(cl.list, cl.lastClientIP, lt[t].clientIP, FALSE)
         /\ Len(lt'[t].ret) = Len(cl.list)
         /\ \A e \in 1..Len(cl.lastClientIP) :
              Cardinality({i \in 1..Len(lt'[t].ret) : lt'[t].ret[i] = e}) = 1]_vars

\* A snapshot for ip1 of three entries has returned the one entry ip1 used
\* last first, ahead of an entry that stands before it in the list.
C13_Witness ==
  \E t \in ListTasks :
    /\ lt[t].op = "snapshot" /\ lt[t].pc = "idle"
    /\ lt[t].clientIP = "ip1"
    /\ Len(lt[t].ret) = 3
    /\ cl.lastClientIP[lt[t].ret[1]] = "ip1"
    /\ cl.list[1] # lt[t].ret[1]
    /\ cl.lastMark[2] = "nil" /\ lcalls = 3

\* C14 (affinity).  When a snapshot for clientIP returns and the last
\* SafeMarkUsedByClientIP to have marked an entry marked e with that same
\* clientIP, the snapshot has e at index 0, however many other entries have
\* that clientIP as their lastClientIP and whatever was pushed since.
C14_Affinity ==
  [][\A t \in ListTasks :
       (/\ SnapshotReturns(t)
        /\ cl.lastMark[1] # 0
        /\ lt[t].clientIP = cl.lastMark[2]) =>
         /\ lt'[t].ret # <<>>
         /\ lt'[t].ret[1] = cl.lastMark[1]]_vars

\* Two entries were marked with ip1, one after the other; the snapshot
\* for ip1 that followed has the second of them first, then the first.
C14_Witness ==
  \E t \in ListTasks :
    /\ lt[t].op = "snapshot" /\ lt[t].pc = "idle" /\ lcalls = 3
    /\ lt[t].clientIP = "ip1" /\ cl.lastMark[2] = "ip1"
    /\ Len(lt[t].ret) = 3
    /\ lt[t].ret[1] = cl.lastMark[1]
    /\ cl.lastClientIP[lt[t].ret[2]] = "ip1"
    /\ lt[t].ret[2] < lt[t].ret[1]

\* C15 (snapshots are consistent).  With SafeSnapshotForClientIP and
\* SafeMarkUsedByClientIP calls of two threads interleaved in every way (and
\* no PushBack during the snapshot): a snapshot that returns holds every
\* entry exactly once and is what the list and the entries' lastClientIP
\* gave when the snapshot took its lock, a moment at which no
\* SafeMarkUsedByClientIP was part-way through; and what a snapshot has
\* returned stays as it is whatever is marked afterwards.
C15_SnapshotConsistent ==
  [][\A t \in ListTasks :
       /\ (SnapshotReturns(t) /\ lt[t].clean) =>
            /\ \A e \in 1..Len(cl.lastClientIP) :
                 Cardinality({i \in 1..Len(lt'[t].ret) : lt'[t].ret[i] = e}) = 1
            /\ lt[t].at.whole
            /\ Len(lt[t].at.list) = Len(lt[t].at.lastClientIP)
            /\ lt'[t].ret =
                 IF lt[t].clientIP = "nil" THEN lt[t].at.list
                 ELSE EntriesWith(lt[t].at.list, lt[t].at.lastClientIP,
                                  lt[t].clientIP, TRUE) \o
                      EntriesWith(lt[t].at.list, lt[t].at.lastClientIP,
                                  lt[t].clientIP, FALSE)
       /\ (lt[t].pc = "idle" /\ lt'[t].pc = "idle") => lt'[t].ret = lt[t].ret]_vars

\* A snapshot of three entries is complete and about to return while the
\* other thread's SafeMarkUsedByClientIP, of an entry that is not at the
\* front, waits for the lock.
C15_Witness ==
  \E t, u \in ListTasks :
    /\ lt[t].pc = "return" /\ lt[t].clean
    /\ Len(lt[t].cipherArray) = 1 /\ Len(lt[t].remainingCiphers) = 2
    /\ lt[u].pc = "Lock" /\ lt[u].e # Front(cl.list)

\* Where a call holds cl.mu for reading, and for writing.
Reading(t) == lt[t].pc \in {"front", "loop", "return"}
Writing(t) == lt[t].pc \in {"unlink", "relink", "setip", "unlock"}

\* C16 as claimed (locking discipline).  No PushBack executes while a
\* snapshot's iteration or a SafeMarkUsedByClientIP's move is in progress.
C16_PushBackExcluded ==
  [][Len(cl'.lastClientIP) > Len(cl.lastClientIP) =>
       \A t \in ListTasks : ~Reading(t) /\ ~Writing(t)]_vars

\* C16 amended.  A snapshot iterates holding mu for reading and a
\* SafeMarkUsedByClientIP moves and marks holding it for writing: while one
\* call moves or marks, no other call iterates, moves or marks (snapshots
\* may iterate together).  PushBack takes no lock.
C16_SafeCallsExcluded ==
  /\ cl.readers = Cardinality({t \in ListTasks : Reading(t)})
  /\ cl.writer = (\E t \in ListTasks : Writing(t))
  /\ \A t, u \in ListTasks :
       (t # u /\ Writing(t)) => (~Writing(u) /\ ~Reading(u))
  /\ (\E t \in ListTasks : Writing(t)) \/
       (/\ Len(cl.list) = Len(cl.lastClientIP)
        /\ \A e \in 1..Len(cl.lastClientIP) : \E i \in 1..Len(cl.list) : cl.list[i] = e)

\* An entry was pushed while a snapshot was in its loop, and the other
\* thread's SafeMarkUsedByClientIP waits for that snapshot.
C16_Witness ==
  \E t, u \in ListTasks :
    /\ lt[t].pc = "loop" /\ ~lt[t].clean /\ lt[t].e # 0
    /\ lt[u].pc = "Lock"
    /\ cl.readers = 1

\* A call of add_if_new returns: the step of thread t that releases the
\* mutex.
AddReturns(t) == rt[t].pc = "unlock" /\ rt'[t].pc = "idle"

LastOf(q, n) == {q[i] : i \in {j \in 1..Len(q) : j > Len(q) - n}}

\* C18 (replay window).  In every state reached by a step: the last N tags
\* inserted into a replay set of capacity N are present, each generation
\* holds at most N tags (so at most 2N are remembered); and a step that
\* changes the previous generation makes it what the current generation
\* was, so that nothing of the current generation is dropped.
C18_ReplayWindow ==
  [][/\ LastOf(radds', rs'.capacity) \subseteq rs'.current \cup rs'.previous
     /\ Cardinality(rs'.current) <= rs'.capacity
     /\ Cardinality(rs'.previous) <= rs'.capacity
     /\ Cardinality(rs'.current \cup rs'.previous) <= 2 * rs'.capacity
     /\ rs'.previous # rs.previous =>
          /\ rs'.previous = rs.current
          /\ Cardinality(rs.current) = rs.capacity
     /\ rs.current \subseteq rs'.current \cup rs'.previous]_vars

\* A set of capacity 2 has rotated: the previous generation is full and
\* the current one holds the tag inserted last.
C18_Witness ==
  /\ rs.capacity = 2
  /\ Cardinality(rs.previous) = 2 /\ Cardinality(rs.current) = 1
  /\ Len(radds) = 3 /\ radds[3] \in rs.current
  /\ \A t \in ReplayTasks : rt[t].pc = "idle"

\* The reader tasks that are reading from target socket j.
ReadersOf(rr, j) ==
  {i \in 1..Len(rr) : rr[i].sock = j /\ rr[i].pc = "reading"}

\* The client addresses that have an entry.
LiveEntries == {c \in NatClients : Live(c)}

\* In this step an entry is created for client address c.
Created(c) == nat'[c].sock # 0 /\ nat'[c].sock # nat[c].sock

IsProbe(i) == conn[i].status \in {"ERR_CIPHER", "ERR_REPLAY"}

CallReturns(t) == task[t].pc # "idle" /\ task'[t].pc = "idle"

\* Thread t's call seals a chunk and hands it to the sink in this step.
CallEmits(t) == task[t].pc = "test" /\ task'[t].pc = "wrote"

\* C21 (lazy buffer bound).  When a call on the Writer returns and no
\* other call is running, between 0 and 16382 bytes are pending.  A LazyWrite sends a chunk only when 16383
\* bytes are pending, and the chunk carries these 16383 bytes; when it
\* returns, having found h bytes pending and taken n, it has sent
\* (h + n) \div 16383 chunks and (h + n) % 16383 bytes are pending.  The
\* pending count goes down only when a chunk has been handed to the sink.
C21_LazyBound ==
  [][/\ \A t \in Tasks :
          /\ (CallReturns(t) /\ task[Other(t)].pc = "idle") =>
               sw'.pending \in 0..(payloadSizeMask - 1)
          /\ (CallEmits(t) /\ task[t].mode = modeLazy) =>
               /\ sw.pending = payloadSizeMask
               /\ DLen(sw'.writer[Len(sw'.writer)][Len(sw'.writer[Len(sw'.writer)])].data)
                    = payloadSizeMask
          /\ (CallReturns(t) /\ task[t].op = "LazyWrite") =>
               LET all == DLen(task[t].held) + task[t].arg[2] IN
               /\ sw'.pending = all % payloadSizeMask
               /\ Len(sw'.writer) - task[t].sink0 = all \div payloadSizeMask
               /\ task'[t].written = task[t].arg[2]
     /\ sw'.pending < sw.pending =>
          /\ \E t \in Tasks : task[t].pc = "wrote"
          /\ sw'.pending = 0]_vars

\* A LazyWrite found 16382 bytes pending and took one more: it has sent
\* one chunk and has returned with nothing pending.
C21_Witness ==
  /\ task["w"].op = "LazyWrite" /\ task["w"].pc = "idle"
  /\ DLen(task["w"].held) = payloadSizeMask - 1
  /\ task["w"].arg[2] = 1
  /\ Len(sw.writer) = 1
  /\ sw.pending = 0

\* A SafeMarkUsedByClientIP call of thread t returns in this step.
MarkReturns(t) == lt[t].pc = "unlock" /\ lt'[t].pc = "idle"

\* C22 (mark_used frame).  When SafeMarkUsedByClientIP(e, clientIP)
\* returns, with no PushBack during it: the list is e followed by the
\* other entries in the order they had when the call took the lock, so it
\* has the same entries and the same length; e's lastClientIP is clientIP
\* and every other entry's lastClientIP is what it was.  A snapshot for a
\* clientIP returns every entry that matches it ahead of every entry that
\* does not, however many match.
C22_MarkFrame ==
  [][\A t \in ListTasks :
       /\ (MarkReturns(t) /\ lt[t].clean) =>
            /\ cl'.list = <<lt[t].e>> \o Without(lt[t].at.list, lt[t].e)
            /\ Len(cl'.list) = Len(lt[t].at.list)
            /\ {cl'.list[i] : i \in 1..Len(cl'.list)} =
                 {lt[t].at.list[i] : i \in 1..Len(lt[t].at.list)}
            /\ cl'.lastClientIP =
                 [lt[t].at.lastClientIP EXCEPT ![lt[t].e] = lt[t].clientIP]
       /\ (SnapshotReturns(t) /\ lt[t].clean) =>
            \A i, j \in 1..Len(lt'[t].ret) :
              (i < j /\ matchesIP(lt'[t].ret[j], lt[t].clientIP)) =>
                matchesIP(lt'[t].ret[i], lt[t].clientIP)]_vars

\* Two entries have been marked with ip1, the second of them from the
\* back of a list of three: both have ip1 as their lastClientIP, and the
\* entry never marked stands last.
C22_Witness ==
  /\ Len(cl.list) = 3
  /\ \A t \in ListTasks : lt[t].pc = "idle"
  /\ cl.list = <<3, 1, 2>>
  /\ cl.lastClientIP = <<"ip1", "nil", "ip1">>
  /\ lcalls = 2

\* C23 (a nil clientIP matches nothing).  A snapshot for the nil clientIP,
\* with no PushBack during it, returns the list in its order: no entry
\* counts as matching, and an entry whose lastClientIP is nil (never
\* marked, or marked with nil) is not put ahead of one that has been
\* marked with an address.
C23_NilMatchesNothing ==
  [][\A t \in ListTasks :
       (SnapshotReturns(t) /\ lt[t].clean /\ lt[t].clientIP = "nil") =>
         /\ lt[t].cipherArray = <<>>
         /\ lt'[t].ret = cl.list
         /\ lt'[t].ret = lt[t].at.list
         /\ \A e \in 1..Len(cl.lastClientIP) : ~matchesIP(e, "nil")]_vars

\* A snapshot for nil of three entries has returned the list as it is: an
\* entry marked with ip1 first, two entries never marked after it.
C23_Witness ==
  \E t \in ListTasks :
    /\ lt[t].op = "snapshot" /\ lt[t].pc = "idle"
    /\ lt[t].clientIP = "nil"
    /\ Len(lt[t].ret) = 3
    /\ lt[t].ret = cl.list
    /\ cl.lastClientIP[lt[t].ret[1]] = "ip1"
    /\ cl.lastClientIP[lt[t].ret[2]] = "nil"
    /\ cl.lastClientIP[lt[t].ret[3]] = "nil"

\* c is b plus one modulo 256^Len(b), both read as little-endian unsigned
\* integers: the sum is taken three bytes at a time, with the carry.
RECURSIVE PlusOne(_, _)
PlusOne(b, c) ==
  /\ Len(c) = Len(b)
  /\ IF Len(b) <= 3
     THEN LEValue(c) = (LEValue(b) + 1) % (256 ^ Len(b))
     ELSE /\ LEValue(SubSeq(c, 1, 3)) = (LEValue(SubSeq(b, 1, 3)) + 1) % (256 ^ 3)
          /\ IF LEValue(SubSeq(b, 1, 3)) = (256 ^ 3) - 1
             THEN PlusOne(SubSeq(b, 4, Len(b)), SubSeq(c, 4, Len(c)))
             ELSE SubSeq(c, 4, Len(c)) = SubSeq(b, 4, Len(b))

\* The bytes the stream holds for the next chunk, after the salt when the
\* Reader has not read it yet.
Avail == SegsSize(wire) - (IF cr.aead = NoAEAD THEN SaltSize ELSE 0)

\* The opens a Read attempts in this step: none when it has bytes left
\* over or the length block is not all there; the length block's, and
\* when that one opens and the payload block is all there, the payload's.
Opens ==
  IF DLen(conv.leftover) > 0 \/ Avail < 2 + Overhead THEN 0
  ELSE IF rd'.sizeBuf = NoBytes THEN 1
  ELSE IF Avail - (2 + Overhead) < (Uint16(rd'.sizeBuf) % 16384) + Overhead THEN 1
  ELSE 2

\* C24 (nonce arithmetic).  increment replaces a counter of w bytes, read
\* as a little-endian unsigned integer v, by (v + 1) mod 2^(8w), of the
\* same width; a counter of 0xFF bytes becomes one of zero bytes.  A Read
\* advances the Reader's counter by one for each open it attempts,
\* whether the block opens or not, and by nothing for a block it could
\* not read in full.
C24_NonceArithmetic ==
  [][/\ nincs' # nincs =>
          /\ PlusOne(ctr, ctr')
          /\ ctr = AllOnes(Len(ctr)) => ctr' = ZeroBytes(Len(ctr))
     /\ nreads' # nreads =>
          /\ LEValue(cr'.counter) = LEValue(cr.counter) + Opens
          /\ rd'.err \in {"failed to read payload size: failed to decrypt",
                           "failed to decrypt"} => Opens >= 1
          /\ (rd'.err \in {"EOF", "ErrUnexpectedEOF"} /\ rd'.sizeBuf = NoBytes) =>
               cr'.counter = cr.counter \/ cr.counter = NoBytes]_vars

\* A counter of twelve 0xFF bytes has been incremented to twelve zero
\* bytes; the Reader's first length block did not open, and its counter
\* stands at one.
C24_Witness ==
  /\ nincs = 1 /\ ctr = ZeroBytes(NonceSize)
  /\ rd.err = "failed to read payload size: failed to decrypt"
  /\ nreads = 1
  /\ LEValue(cr.counter) = 1

\* The sink's write fails in this step, which ends thread t's call.
SinkFails(t) == task[t].pc = "wrote" /\ task'[t].pc = "idle"

\* What the failed write leaves behind: nothing pending, the counter two
\* past the nonce the failed chunk's length was sealed under, and a byte
\* count that has every byte this call took, those of the failed chunk
\* with the others.
FailureEffects(t) ==
  /\ sw'.pending = 0
  /\ sw'.payload = <<>>
  /\ LEValue(sw'.counter) = LEValue(seals[Len(seals) - 1]) + 2
  /\ task'[t].written = task[t].written
  /\ DLen(task[t].sent) + sw'.pending = DLen(task[t].held) + task[t].written

\* C25 as claimed (sink write failure).  When the sink's write of a chunk
\* fails, the call returns an error that is not nil, nothing is pending,
\* the counter has advanced by two and the byte count returned includes
\* the failed chunk's bytes; no byte handed to the Writer is handed to
\* the sink twice.
C25_SinkFailure ==
  [][/\ \A t \in Tasks :
          SinkFails(t) => (task'[t].err # "nil" /\ FailureEffects(t))
     /\ Disjoint(PlainOf(sw'.writer))]_vars

\* A Write of one byte has returned 1 and no error, its chunk's write on
\* the sink having failed with io.EOF; nothing is pending.
C25_Swallowed ==
  /\ task["w"].op = "Write" /\ task["w"].pc = "idle"
  /\ task["w"].arg[2] = 1
  /\ task["w"].werr = "EOF"
  /\ task["w"].err = "nil"
  /\ task["w"].written = 1
  /\ sw.pending = 0

====
